---- MODULE Spec2Model ----
(***************************************************************************)
(* A model of the tensor layer (src/src/tensor.rs), of the binary          *)
(* arithmetic layer (src/src/old/binary.rs) and of the generic vectors     *)
(* (src/src/core/genvec.rs) of uasat.                                      *)
(*                                                                         *)
(* Conventions.  Rust vectors are TLA+ sequences, so the element the code  *)
(* reaches as v[i] is v[i + 1] here.  Linear indices into the flat storage *)
(* of a tensor keep their 0-based values (they are computed by arithmetic  *)
(* that the claims are about); dimension positions, such as the entries of *)
(* a polymer mapping, are 1-based positions of the shape sequence.         *)
(***************************************************************************)
EXTENDS Integers, Sequences, FiniteSets, TLC

VARIABLES
    t,        \* the tensor the program holds: [alg, shape, elems]
    prev,     \* the tensor the program held when it made the call op
    op,       \* the call that has just returned, with its arguments
    res,      \* "ok", or "panic" when the call panicked
    nvars,    \* the number of variables the solver has allocated
    clauses,  \* the clauses the solver has been given, in order
    model,    \* the model the solver has found, if any
    value     \* the tensor of values the call read from the model, if any

tvars == <<t, prev, op, res, nvars, clauses, model, value>>

VARIABLES
    iter,     \* a StrideIter: [entries, index, done]
    ishape,   \* the shape the StrideIter was constructed for
    calls,    \* the number of calls of next() so far
    emitted,  \* the number of those calls that returned a value
    last      \* the return value of the last call of next()

ivars == <<iter, ishape, calls, emitted, last>>

VARIABLES
    bop,      \* the call of the binary arithmetic layer, with its arguments
    out,      \* the vector the call returned
    bres,     \* "ok", or "panic" when the call panicked
    checks    \* the build has overflow checks (a debug build)

bvars == <<bop, out, bres, checks>>

VARIABLES
    vec,      \* the three vectors built in parallel: [dense, bits, unit]
    vprev,    \* the three vectors before the call vop
    vop,      \* the call of the generic vector, with its arguments
    vret,     \* what the call returned, for each vector
    vres,     \* "ok", or "panic" when the call panicked, for each vector
    debug     \* the build has debug assertions (a debug build)

vvars == <<vec, vprev, vop, vret, vres, debug>>

vars == <<tvars, ivars, bvars, vvars>>

(***************************************************************************)
(* Bounds of the model.                                                    *)
(***************************************************************************)
MaxRank == 2      \* most dimensions of a shape
MaxDim == 3       \* largest size of one dimension
MaxSize == 6      \* most cells of a tensor
MaxVars == 2      \* most variables of the solver
MaxStride == 2    \* largest stride added to one entry of a StrideIter
ExtraCalls == 2   \* calls of next() made after the iterator is exhausted
MaxWidth == 4     \* most bits of the operands of the arithmetic operations
MaxLen == 3       \* most elements pushed to a vector one by one

(***************************************************************************)
(* Sequences of length at most n over the set S.                           *)
(***************************************************************************)
SeqsUpTo(S, n) == UNION {[1..k -> S] : k \in 0..n}

(***************************************************************************)
(* Shape (tensor.rs 28-122).                                               *)
(***************************************************************************)
RECURSIVE size(_)
size(dims) == IF dims = <<>> THEN 1 ELSE Head(dims) * size(Tail(dims))

Shape_split(dims) == [head |-> Head(dims), shape |-> Tail(dims)]

RECURSIVE strides_from(_, _)
strides_from(dims, sz) ==
    IF dims = <<>> THEN <<>>
    ELSE <<sz>> \o strides_from(Tail(dims), sz * Head(dims))

\* strides of a layout whose last dimension varies fastest
strides_last(dims) ==
    [i \in 1..Len(dims) |-> size(SubSeq(dims, i + 1, Len(dims)))]

strides(dims) == strides_from(dims, 1)

\* the value index() does not return: it panics instead
NoIndex == -1

RECURSIVE index_from(_, _, _, _, _)
index_from(dims, coords, i, idx, sz) ==
    IF i > Len(dims) THEN idx
    ELSE IF ~(coords[i] < dims[i]) THEN NoIndex
    ELSE index_from(dims, coords, i + 1, idx + coords[i] * sz, sz * dims[i])

\* index whose running size starts at 0
index_zero(dims, coords) ==
    IF Len(coords) # Len(dims) THEN NoIndex
    ELSE index_from(dims, coords, 1, 0, 0)

index(dims, coords) ==
    IF Len(coords) # Len(dims) THEN NoIndex
    ELSE index_from(dims, coords, 1, 0, 1)

(***************************************************************************)
(* StrideIter (tensor.rs 134-185).  An entry is the tuple                  *)
(* <<counter, dimension, stride>>, the fields .0, .1 and .2 of the code.   *)
(***************************************************************************)
\* StrideIter::new that does not mark the iterator of an empty shape done
StrideIter_new_nodone(dims) ==
    [entries |-> [i \in 1..Len(dims) |-> <<0, dims[i], 0>>],
     index |-> 0,
     done |-> FALSE]

StrideIter_new(dims) ==
    [entries |-> [i \in 1..Len(dims) |-> <<0, dims[i], 0>>],
     index |-> 0,
     done |-> \E i \in 1..Len(dims) : dims[i] = 0]

\* add_stride that overwrites the stride of the entry instead of adding to it
add_stride_assign(it, idx, stride) ==
    [it EXCEPT !.entries[idx][3] = stride]

add_stride(it, idx, stride) ==
    [it EXCEPT !.entries[idx][3] = @ + stride]

\* the value of next() when it returns None
None == -1

\* the for loop of next() from entry k on; index0 is the value to return.
\* low is the least value the running index has taken so far.
RECURSIVE next_from(_, _, _, _)
\* the loop that takes the counter times the stride from the running index
\* before it adds the stride to it
next_from_early(it, k, index0, low) ==
    IF k > Len(it.entries)
    THEN [it |-> [it EXCEPT !.done = TRUE], ret |-> index0, low |-> low]
    ELSE LET e == it.entries[k]
             count == e[1] + 1
             early == it.index - count * e[3]
         IN  IF count >= e[2]
             THEN next_from([it EXCEPT !.index = early + e[3],
                                       !.entries[k][1] = 0],
                            k + 1, index0,
                            IF early < low THEN early ELSE low)
             ELSE [it |-> [it EXCEPT !.index = it.index + e[3],
                                     !.entries[k][1] = count],
                   ret |-> index0, low |-> low]

next_from(it, k, index0, low) ==
    IF k > Len(it.entries)
    THEN [it |-> [it EXCEPT !.done = TRUE], ret |-> index0, low |-> low]
    ELSE LET e == it.entries[k]
             added == it.index + e[3]
             count == e[1] + 1
         IN  IF count >= e[2]
             THEN LET reset == added - count * e[3]
                  IN  next_from([it EXCEPT !.index = reset,
                                           !.entries[k][1] = 0],
                                k + 1, index0,
                                IF reset < low THEN reset ELSE low)
             ELSE [it |-> [it EXCEPT !.index = added,
                                     !.entries[k][1] = count],
                   ret |-> index0, low |-> low]

next(it) ==
    IF ~it.done THEN next_from(it, 1, it.index, it.index)
    ELSE [it |-> it, ret |-> None, low |-> it.index]

\* Iterator::collect applied to a StrideIter: the values of next() up to
\* the first None
RECURSIVE collect(_)
collect(it) ==
    LET r == next(it)
    IN  IF r.ret = None THEN <<>> ELSE <<r.ret>> \o collect(r.it)

(***************************************************************************)
(* Generic vector access (genvec.rs 108-121, 243-253, 314-329) and the     *)
(* range of a vector, which tensor.rs takes from a Vector trait whose      *)
(* source is not part of src/.                                             *)
(***************************************************************************)
get_ok(elems, i) == i >= 0 /\ i < Len(elems)

get(elems, i) == elems[i + 1]

set(elems, i, elem) == [elems EXCEPT ![i + 1] = elem]

range(elems, start, end) == SubSeq(elems, start + 1, end)

\* Iterator::zip of two vectors followed by map(f) and collect
zip_len(elems1, elems2) ==
    IF Len(elems1) <= Len(elems2) THEN Len(elems1) ELSE Len(elems2)

(***************************************************************************)
(* The dense vector, Wrapper<Vec<ELEM>> (genvec.rs 198-270): a sequence.   *)
(***************************************************************************)
Vec_new == <<>>

Vec_len(v) == Len(v)

Vec_push(v, elem) == Append(v, elem)

\* Vec::pop: the vector that is left and the Option returned, None as <<>>
Vec_pop(v) ==
    IF Len(v) = 0 THEN [vec |-> v, ret |-> <<>>]
    ELSE [vec |-> SubSeq(v, 1, Len(v) - 1), ret |-> <<v[Len(v)]>>]

Vec_resize(v, new_len, elem) ==
    IF new_len > Len(v)
    THEN v \o [k \in 1..(new_len - Len(v)) |-> elem]
    ELSE SubSeq(v, 1, new_len)

\* self.0[idx] panics when the index is not below the length
Vec_get_ok(v, idx) == idx < Len(v)

Vec_get(v, idx) == v[idx + 1]

Vec_get_unchecked(v, idx) == v[idx + 1]

Vec_set_ok(v, idx) == idx < Len(v)

Vec_set(v, idx, elem) == [v EXCEPT ![idx + 1] = elem]

Vec_set_unchecked(v, idx, elem) == [v EXCEPT ![idx + 1] = elem]

Vec_iter(v) == v

\* FromIterator and Extend of Vec
Vec_extend(v, elems) == v \o elems

Vec_clear(v) == <<>>

\* assert!(new_len <= self.0.len())
Vec_truncate_ok(v, new_len) == new_len <= Len(v)

Vec_truncate(v, new_len) == SubSeq(v, 1, new_len)

\* Vec::append moves the elements of the other vector behind those of this
\* one: the vector and what is left of the other one
Vec_append(v, other) == [vec |-> v \o other, other |-> <<>>]

(***************************************************************************)
(* The bit-packed vector, Wrapper<BitVec> (genvec.rs 272-355).  A BitVec   *)
(* is [storage, nbits]: storage is the sequence of its u32 words, a word   *)
(* is the set of the positions of its bits that are 1, and bit i of the    *)
(* vector is bit i % 32 of word i / 32.  The bits of the last word from    *)
(* position nbits % 32 on are 0.                                           *)
(***************************************************************************)
\* B::bits() of the block type u32
WordBits == 32

BitVec_new == [storage |-> <<>>, nbits |-> 0]

Bits_len(v) == v.nbits

\* the number of words that hold the given number of bits
blocks_for_bits(bits) == (bits + WordBits - 1) \div WordBits

\* BitVec::get returns None when the index is not below nbits, and
\* Wrapper::get unwraps it
Bits_get_ok(v, idx) == idx < v.nbits

Bits_get(v, idx) ==
    (idx % WordBits) \in v.storage[(idx \div WordBits) + 1]

\* BitVec::set asserts that the index is below nbits
Bits_set_ok(v, idx) == idx < v.nbits

Bits_set(v, idx, elem) ==
    LET w == idx \div WordBits
        b == idx % WordBits
    IN  [v EXCEPT !.storage[w + 1] = IF elem THEN @ \cup {b} ELSE @ \ {b}]

\* get_unchecked that takes the bit from the first word
Bits_get_unchecked_first(v, idx) ==
    LET b == idx % WordBits
        x == v.storage[1]
    IN  b \in x

Bits_get_unchecked(v, idx) ==
    LET w == idx \div WordBits
        b == idx % WordBits
        x == v.storage[w + 1]
    IN  b \in x

Bits_set_unchecked(v, idx, elem) ==
    LET w == idx \div WordBits
        b == idx % WordBits
        x == v.storage[w + 1]
    IN  [v EXCEPT !.storage[w + 1] = IF elem THEN x \cup {b} ELSE x \ {b}]

\* BitVec::push adds a word when the last one is full
Bits_push(v, elem) ==
    LET s == IF v.nbits % WordBits = 0 THEN Append(v.storage, {})
             ELSE v.storage
    IN  Bits_set([storage |-> s, nbits |-> v.nbits + 1], v.nbits, elem)

\* BitVec::pop clears the bit it returns and drops a word left empty
Bits_pop(v) ==
    IF v.nbits = 0 THEN [vec |-> v, ret |-> <<>>]
    ELSE LET i == v.nbits - 1
             w == Bits_set(v, i, FALSE)
         IN  [vec |-> [storage |-> IF i % WordBits = 0
                                   THEN SubSeq(w.storage, 1, Len(w.storage) - 1)
                                   ELSE w.storage,
                       nbits |-> i],
              ret |-> <<Bits_get(v, i)>>]

\* BitVec::extend, which FromIterator uses too, pushes the elements one by
\* one: the words keep their bits, take the new bits that fall into them,
\* and new words are added for the rest
Bits_extend(v, elems) ==
    [storage |->
        [w \in 1..blocks_for_bits(v.nbits + Len(elems)) |->
            (IF w <= Len(v.storage) THEN v.storage[w] ELSE {})
            \cup {b \in 0..(WordBits - 1) :
                     LET i == (w - 1) * WordBits + b
                     IN  /\ i >= v.nbits
                         /\ i < v.nbits + Len(elems)
                         /\ elems[i - v.nbits + 1]}],
     nbits |-> v.nbits + Len(elems)]

\* BitVec::grow appends n bits of one value
BitVec_grow(v, n, elem) == Bits_extend(v, [k \in 1..n |-> elem])

\* BitVec::truncate drops the words behind the new length and clears the
\* bits of the last word behind it
BitVec_truncate(v, len) ==
    IF len < v.nbits
    THEN LET s == SubSeq(v.storage, 1, blocks_for_bits(len))
             extra == len % WordBits
         IN  [storage |-> IF extra > 0
                          THEN [s EXCEPT ![Len(s)] = @ \cap (0..(extra - 1))]
                          ELSE s,
              nbits |-> len]
    ELSE v

\* resize that always grows, by the new length
Bits_resize_grow(v, new_len, elem) == BitVec_grow(v, new_len, elem)

Bits_resize(v, new_len, elem) ==
    IF new_len > Bits_len(v) THEN BitVec_grow(v, new_len - Bits_len(v), elem)
    ELSE BitVec_truncate(v, new_len)

\* the bits of the vector in the order its iterator returns them
Bits_iter(v) == [k \in 1..v.nbits |-> Bits_get(v, k - 1)]

\* clear is self.0.truncate(0)
Bits_clear(v) == BitVec_truncate(v, 0)

\* assert!(new_len <= self.0.len())
Bits_truncate_ok(v, new_len) == new_len <= v.nbits

Bits_truncate(v, new_len) == BitVec_truncate(v, new_len)

\* append that puts the bits of the other vector behind the last word
Bits_append_aligned(v, other) ==
    [vec |-> [storage |-> v.storage \o other.storage,
              nbits |-> v.nbits + other.nbits],
     other |-> BitVec_new]

\* BitVec::append moves the bits of the other vector behind those of this
\* one, shifted to where this one ends, and leaves the other one empty
Bits_append(v, other) ==
    [vec |-> Bits_extend(v, Bits_iter(other)), other |-> BitVec_new]

(***************************************************************************)
(* The unit vector, UnitVec (genvec.rs 401-513): only its length.          *)
(***************************************************************************)
Unit_new == 0

Unit_len(v) == v

Unit_push(v, elem) == v + 1

\* pop that returns an element from the empty vector too
Unit_pop_some(v) ==
    [vec |-> IF v > 0 THEN v - 1 ELSE v, ret |-> <<"unit">>]

Unit_pop(v) ==
    IF v > 0 THEN [vec |-> v - 1, ret |-> <<"unit">>]
    ELSE [vec |-> v, ret |-> <<>>]

Unit_resize(v, new_len, elem) == new_len

\* debug_assert!(index < self.len) is compiled only into a debug build
Unit_get_ok(v, idx) == debug => idx < v

Unit_get(v, idx) == "unit"

Unit_get_unchecked(v, idx) == "unit"

Unit_set_ok(v, idx) == debug => idx < v

Unit_set(v, idx, elem) == v

Unit_set_unchecked(v, idx, elem) == v

Unit_iter(v) == [k \in 1..v |-> "unit"]

Unit_extend(v, elems) == v + Len(elems)

Unit_clear(v) == 0

\* assert!(new_len <= self.len)
Unit_truncate_ok(v, new_len) == new_len <= v

Unit_truncate(v, new_len) == new_len

Unit_append(v, other) == [vec |-> v + other, other |-> 0]

(***************************************************************************)
(* GenVector::split and GenVector::concat (genvec.rs 42-69), which the     *)
(* dense and the bit-packed vector inherit, and UnitVec::split (447-455).  *)
(***************************************************************************)
\* split returns early for an empty vector and asserts len != 0 otherwise
split_ok(n, len) == n = 0 \/ len # 0

\* the elements the loops of split take from the iterator for each of the
\* count vectors
RECURSIVE split_from(_, _, _)
split_from(elems, len, count) ==
    IF count = 0 THEN <<>>
    ELSE <<SubSeq(elems, 1, len)>>
         \o split_from(SubSeq(elems, len + 1, Len(elems)), len, count - 1)

Vec_split(v, len) ==
    IF Vec_len(v) = 0 THEN <<>>
    ELSE LET count == Vec_len(v) \div len
             parts == split_from(Vec_iter(v), len, count)
         IN  [k \in 1..count |-> Vec_extend(Vec_new, parts[k])]

Bits_split(v, len) ==
    IF Bits_len(v) = 0 THEN <<>>
    ELSE LET count == Bits_len(v) \div len
             parts == split_from(Bits_iter(v), len, count)
         IN  [k \in 1..count |-> Bits_extend(BitVec_new, parts[k])]

\* split that also returns a vector for the remainder
Unit_split_rest(v, len) ==
    IF v = 0 THEN <<>> ELSE [k \in 1..((v + len - 1) \div len) |-> len]

Unit_split(v, len) ==
    IF v = 0 THEN <<>> ELSE [k \in 1..(v \div len) |-> len]

RECURSIVE Vec_concat_from(_, _)
Vec_concat_from(result, parts) ==
    IF parts = <<>> THEN result
    ELSE Vec_concat_from(Vec_extend(result, Vec_iter(Head(parts))),
                         Tail(parts))

Vec_concat(parts) == Vec_concat_from(Vec_new, parts)

RECURSIVE Bits_concat_from(_, _)
Bits_concat_from(result, parts) ==
    IF parts = <<>> THEN result
    ELSE Bits_concat_from(Bits_extend(result, Bits_iter(Head(parts))),
                          Tail(parts))

Bits_concat(parts) == Bits_concat_from(BitVec_new, parts)

RECURSIVE Unit_concat_from(_, _)
Unit_concat_from(result, parts) ==
    IF parts = <<>> THEN result
    ELSE Unit_concat_from(Unit_extend(result, Unit_iter(Head(parts))),
                          Tail(parts))

Unit_concat(parts) == Unit_concat_from(Unit_new, parts)

(***************************************************************************)
(* The concrete two-valued algebra, Boolean.  Its source (boolean.rs) is   *)
(* not part of src/; the operations follow section 4.4 of the              *)
(* specification: standard boolean semantics, folds by AND, OR and XOR.    *)
(***************************************************************************)
bool_lift(b) == b
bool_unit == TRUE
bool_zero == FALSE
bool_not(a) == ~a
bool_or(a, b) == a \/ b
bool_and(a, b) == a /\ b
bool_xor(a, b) == a # b
bool_equ(a, b) == a = b
bool_imp(a, b) == a => b
bool_sum3(a, b, c) == (a # b) # c
bool_maj(a, b, c) == (a /\ b) \/ (a /\ c) \/ (b /\ c)

RECURSIVE bool_all(_)
bool_all(elems) ==
    IF elems = <<>> THEN TRUE ELSE Head(elems) /\ bool_all(Tail(elems))

RECURSIVE bool_any(_)
bool_any(elems) ==
    IF elems = <<>> THEN FALSE ELSE Head(elems) \/ bool_any(Tail(elems))

RECURSIVE bool_sum(_)
bool_sum(elems) ==
    IF elems = <<>> THEN FALSE ELSE Head(elems) # bool_sum(Tail(elems))

(***************************************************************************)
(* Tensor (tensor.rs 189-253).                                             *)
(***************************************************************************)
Tensor_new_ok(shape, elems) == size(shape) = Len(elems)

Tensor_new(alg, shape, elems) ==
    [alg |-> alg, shape |-> shape, elems |-> elems]

constant(alg, shape, elem) ==
    [alg |-> alg, shape |-> shape, elems |-> [i \in 1..size(shape) |-> elem]]

very_slow_get(tensor, coords) == get(tensor.elems, index(tensor.shape, coords))

very_slow_set_ok(tensor, coords) ==
    /\ index(tensor.shape, coords) # NoIndex
    /\ get_ok(tensor.elems, index(tensor.shape, coords))

very_slow_set(tensor, coords, elem) ==
    [tensor EXCEPT !.elems = set(@, index(tensor.shape, coords), elem)]

\* the for loop of polymer from position idx of the mapping on
RECURSIVE polymer_strides(_, _, _, _)
polymer_strides(it, mapping, strd, idx) ==
    IF idx > Len(mapping) THEN it
    ELSE polymer_strides(add_stride(it, mapping[idx], strd[idx]),
                         mapping, strd, idx + 1)

polymer_iter(tensor, shape, mapping) ==
    polymer_strides(StrideIter_new(shape), mapping, strides(tensor.shape), 1)

\* polymer that does not compare the dimensions
polymer_pre_nodims(tensor, shape, mapping) ==
    /\ Len(mapping) = Len(tensor.shape)
    /\ \A idx \in 1..Len(mapping) : mapping[idx] \in 1..Len(shape)

\* the two assertions at the head of polymer, and the bounds of shape[*val]
polymer_pre(tensor, shape, mapping) ==
    /\ Len(mapping) = Len(tensor.shape)
    /\ \A idx \in 1..Len(mapping) :
          /\ mapping[idx] \in 1..Len(shape)
          /\ tensor.shape[idx] = shape[mapping[idx]]

\* polymer returns: no assertion fails and no element is read out of bounds
polymer_ok(tensor, shape, mapping) ==
    /\ polymer_pre(tensor, shape, mapping)
    /\ LET indices == collect(polymer_iter(tensor, shape, mapping))
       IN  /\ \A k \in 1..Len(indices) : get_ok(tensor.elems, indices[k])
           /\ Tensor_new_ok(shape, indices)

polymer(tensor, shape, mapping) ==
    LET indices == collect(polymer_iter(tensor, shape, mapping))
    IN  Tensor_new(tensor.alg, shape,
                   [k \in 1..Len(indices) |-> get(tensor.elems, indices[k])])

\* the product of the first count dimensions
RECURSIVE product(_)
product(dims) == IF dims = <<>> THEN 1 ELSE Head(dims) * product(Tail(dims))

reshape_join_ok(tensor, count) == count <= Len(tensor.shape)

\* reshape_join that adds the joined dimensions up instead of multiplying
RECURSIVE sum_dims(_)
sum_dims(dims) == IF dims = <<>> THEN 0 ELSE Head(dims) + sum_dims(Tail(dims))

reshape_join_sum(tensor, count) ==
    [tensor EXCEPT !.shape = <<sum_dims(SubSeq(tensor.shape, 1, count))>>
                             \o SubSeq(tensor.shape, count + 1, Len(tensor.shape))]

\* reshape_join that puts the joined dimension last instead of first
reshape_join_last(tensor, count) ==
    [tensor EXCEPT !.shape = SubSeq(tensor.shape, count + 1, Len(tensor.shape))
                             \o <<product(SubSeq(tensor.shape, 1, count))>>]

reshape_join(tensor, count) ==
    [tensor EXCEPT !.shape = <<product(SubSeq(tensor.shape, 1, count))>>
                             \o SubSeq(tensor.shape, count + 1, Len(tensor.shape))]

(***************************************************************************)
(* TensorAlg for a BoolAlg (tensor.rs 316-438), over the algebra Boolean.  *)
(***************************************************************************)
scalar(elem) == constant("Boolean", <<>>, bool_lift(elem))

\* the for loop of diagonal from idx on
RECURSIVE diagonal_from(_, _, _)
diagonal_from(elems, dim, idx) ==
    IF idx >= dim THEN elems
    ELSE diagonal_from(set(elems, idx * (dim + 1), bool_unit), dim, idx + 1)

diagonal_ok(dim) ==
    \A idx \in 0..(dim - 1) : get_ok(constant("Boolean", <<dim, dim>>,
                                              bool_zero).elems,
                                     idx * (dim + 1))

diagonal(dim) ==
    [constant("Boolean", <<dim, dim>>, bool_zero)
        EXCEPT !.elems = diagonal_from(@, dim, 0)]

tensor_not_ok(tensor) ==
    Tensor_new_ok(tensor.shape, tensor.elems)

tensor_not(tensor) ==
    Tensor_new(tensor.alg, tensor.shape,
               [i \in 1..Len(tensor.elems) |-> bool_not(tensor.elems[i])])

\* the five elementwise operations of two tensors differ in the gate only
tensor_zip_ok(elem1, elem2) ==
    /\ elem1.shape = elem2.shape
    /\ Tensor_new_ok(elem1.shape,
                     [i \in 1..zip_len(elem1.elems, elem2.elems) |-> TRUE])

tensor_or(elem1, elem2) ==
    Tensor_new(elem1.alg, elem1.shape,
               [i \in 1..zip_len(elem1.elems, elem2.elems) |->
                   bool_or(elem1.elems[i], elem2.elems[i])])

tensor_and(elem1, elem2) ==
    Tensor_new(elem1.alg, elem1.shape,
               [i \in 1..zip_len(elem1.elems, elem2.elems) |->
                   bool_and(elem1.elems[i], elem2.elems[i])])

tensor_xor(elem1, elem2) ==
    Tensor_new(elem1.alg, elem1.shape,
               [i \in 1..zip_len(elem1.elems, elem2.elems) |->
                   bool_xor(elem1.elems[i], elem2.elems[i])])

tensor_equ(elem1, elem2) ==
    Tensor_new(elem1.alg, elem1.shape,
               [i \in 1..zip_len(elem1.elems, elem2.elems) |->
                   bool_equ(elem1.elems[i], elem2.elems[i])])

tensor_imp(elem1, elem2) ==
    Tensor_new(elem1.alg, elem1.shape,
               [i \in 1..zip_len(elem1.elems, elem2.elems) |->
                   bool_imp(elem1.elems[i], elem2.elems[i])])

\* the folds: Shape::split asserts a first dimension, every range read lies
\* inside the vector, and Tensor::new asserts the length
tensor_fold_ok(elem) ==
    /\ elem.shape # <<>>
    /\ LET head == Shape_split(elem.shape).head
           shape == Shape_split(elem.shape).shape
       IN  /\ \A i \in 0..(size(shape) - 1) :
                 i * head + head <= Len(elem.elems)
           /\ Tensor_new_ok(shape, [k \in 1..size(shape) |-> TRUE])

\* tensor_all that folds head consecutive cells starting at cell i, not i * head
tensor_all_step(elem) ==
    LET head == Shape_split(elem.shape).head
        shape == Shape_split(elem.shape).shape
    IN  Tensor_new(elem.alg, shape,
                   [k \in 1..size(shape) |->
                       bool_all(range(elem.elems, k - 1, k - 1 + head))])

tensor_all(elem) ==
    LET head == Shape_split(elem.shape).head
        shape == Shape_split(elem.shape).shape
    IN  Tensor_new(elem.alg, shape,
                   [k \in 1..size(shape) |->
                       bool_all(range(elem.elems, (k - 1) * head,
                                      (k - 1) * head + head))])

tensor_any(elem) ==
    LET head == Shape_split(elem.shape).head
        shape == Shape_split(elem.shape).shape
    IN  Tensor_new(elem.alg, shape,
                   [k \in 1..size(shape) |->
                       bool_any(range(elem.elems, (k - 1) * head,
                                      (k - 1) * head + head))])

tensor_sum(elem) ==
    LET head == Shape_split(elem.shape).head
        shape == Shape_split(elem.shape).shape
    IN  Tensor_new(elem.alg, shape,
                   [k \in 1..size(shape) |->
                       bool_sum(range(elem.elems, (k - 1) * head,
                                      (k - 1) * head + head))])

(***************************************************************************)
(* TensorSat for a BoolSat (tensor.rs 455-504), over the algebra Solver.   *)
(* The solver is an opaque engine: a literal is the number of a variable,  *)
(* bool_add_variable allocates the next one and bool_get_value reads the   *)
(* model.                                                                  *)
(***************************************************************************)
bool_add_variable(n) == n + 1

bool_get_value(m, e) == m[e]

tensor_add_variable(n, shape) ==
    Tensor_new("Solver", shape,
               [i \in 1..size(shape) |-> bool_add_variable(n + i - 1)])

tensor_get_value_ok(m, tensor) ==
    \A i \in 1..Len(tensor.elems) : tensor.elems[i] \in DOMAIN m

tensor_get_value(m, tensor) ==
    Tensor_new("Boolean", tensor.shape,
               [i \in 1..Len(tensor.elems) |-> bool_get_value(m, tensor.elems[i])])

\* bool_add_clause hands the clause to the solver, which keeps the clauses
\* in the order it was given them
bool_add_clause(cls, clause) == Append(cls, clause)

\* the shapes of the tensors are those of the first one
tensor_add_clause_ok(tensors) ==
    tensors = <<>> \/ \A j \in 2..Len(tensors) :
                         tensors[j].shape = tensors[1].shape

\* the loop over the positions from i on: the clause of position i holds
\* the element of every tensor at i
RECURSIVE tensor_add_clause_from(_, _, _)
tensor_add_clause_from(cls, tensors, i) ==
    IF i >= size(tensors[1].shape) THEN cls
    ELSE tensor_add_clause_from(
             bool_add_clause(cls, [j \in 1..Len(tensors) |->
                                     get(tensors[j].elems, i)]),
             tensors, i + 1)

\* tensor_add_clause without the clause of position 0
tensor_add_clause_rest(cls, tensors) ==
    IF tensors = <<>> THEN bool_add_clause(cls, <<>>)
    ELSE IF size(tensors[1].shape) = 0 THEN cls
    ELSE tensor_add_clause_from(cls, tensors, 1)

tensor_add_clause(cls, tensors) ==
    IF tensors = <<>> THEN bool_add_clause(cls, <<>>)
    ELSE IF size(tensors[1].shape) = 0 THEN cls
    ELSE tensor_add_clause_from(
             bool_add_clause(cls, [j \in 1..Len(tensors) |->
                                     get(tensors[j].elems, 0)]),
             tensors, 1)


(***************************************************************************)
(* BinaryAlg for a BoolAlg (binary.rs 131-297), over the algebra Boolean:  *)
(* a vector of the algebra holds the bits of a number, least significant   *)
(* bit first.                                                              *)
(***************************************************************************)
\* the number of bits of i64, the type of the value num_lift takes
I64Bits == 64

\* the numbers of this model are at most 2 ^ MaxWidth in magnitude: an
\* arithmetic shift by ValueBits or more leaves only the sign of such a number
ValueBits == MaxWidth + 1

\* elem >> i of an i64 for a shift amount below I64Bits
shr(elem, i) ==
    IF i >= ValueBits THEN (IF elem < 0 THEN -1 ELSE 0) ELSE elem \div (2 ^ i)

\* Vector::from_elem (genvec.rs 72-76)
from_elem(elem) == <<elem>>

bit_lift(elem) == [i \in 1..Len(elem) |-> bool_lift(elem[i])]

bit_not(elem) == [i \in 1..Len(elem) |-> bool_not(elem[i])]

bit_or(elem1, elem2) ==
    [i \in 1..zip_len(elem1, elem2) |-> bool_or(elem1[i], elem2[i])]

bit_and(elem1, elem2) ==
    [i \in 1..zip_len(elem1, elem2) |-> bool_and(elem1[i], elem2[i])]

bit_xor(elem1, elem2) ==
    [i \in 1..zip_len(elem1, elem2) |-> bool_xor(elem1[i], elem2[i])]

bit_equ(elem1, elem2) ==
    [i \in 1..zip_len(elem1, elem2) |-> bool_equ(elem1[i], elem2[i])]

bit_imp(elem1, elem2) ==
    [i \in 1..zip_len(elem1, elem2) |-> bool_imp(elem1[i], elem2[i])]

(***************************************************************************)
(* The loops over the elements of a vector that carry a boolean from one   *)
(* element to the next (a carry, a running result) are written as the      *)
(* value the loop holds after the elements lo..hi, from the value it held   *)
(* before them.  The value after the first half of the elements is         *)
(* computed before the second half is entered, so that a loop over a       *)
(* vector of 65 elements nests only a few evaluations.                     *)
(***************************************************************************)
\* the result of the loop of bit_all after the elements lo..hi
RECURSIVE bit_all_from(_, _, _, _)
bit_all_from(elem, lo, hi, result) ==
    IF lo > hi THEN result
    ELSE IF lo = hi THEN bool_and(result, elem[lo])
    ELSE IF bit_all_from(elem, lo, (lo + hi) \div 2, result)
         THEN bit_all_from(elem, (lo + hi) \div 2 + 1, hi, TRUE)
         ELSE bit_all_from(elem, (lo + hi) \div 2 + 1, hi, FALSE)

bit_all(elem) == from_elem(bit_all_from(elem, 1, Len(elem), bool_unit))

\* the result of the loop of bit_any after the elements lo..hi
RECURSIVE bit_any_from(_, _, _, _)
bit_any_from(elem, lo, hi, result) ==
    IF lo > hi THEN result
    ELSE IF lo = hi THEN bool_or(result, elem[lo])
    ELSE IF bit_any_from(elem, lo, (lo + hi) \div 2, result)
         THEN bit_any_from(elem, (lo + hi) \div 2 + 1, hi, TRUE)
         ELSE bit_any_from(elem, (lo + hi) \div 2 + 1, hi, FALSE)

bit_any(elem) == from_elem(bit_any_from(elem, 1, Len(elem), bool_zero))

\* elem >> i overflows when i is not below I64Bits: a build with overflow
\* checks panics, a build without them shifts by i modulo I64Bits
num_lift_ok(len) == ~(checks /\ len > I64Bits)

num_lift(len, elem) ==
    [k \in 1..len |-> bool_lift(shr(elem, (k - 1) % I64Bits) % 2 # 0)]

\* the algebra Trivial lifts every boolean to the unit element
trivial_lift(b) == "unit"

num_lift_trivial(len, elem) ==
    [k \in 1..len |-> trivial_lift(shr(elem, (k - 1) % I64Bits) % 2 # 0)]

\* the carry of the map of num_neg after the bits lo..hi
RECURSIVE num_neg_from(_, _, _, _)
num_neg_from(elem, lo, hi, carry) ==
    IF lo > hi THEN carry
    ELSE IF lo = hi THEN bool_and(bool_not(elem[lo]), carry)
    ELSE IF num_neg_from(elem, lo, (lo + hi) \div 2, carry)
         THEN num_neg_from(elem, (lo + hi) \div 2 + 1, hi, TRUE)
         ELSE num_neg_from(elem, (lo + hi) \div 2 + 1, hi, FALSE)

\* num_neg that starts without a carry
num_neg_nocarry(elem) ==
    [i \in 1..Len(elem) |->
        bool_xor(bool_not(elem[i]), num_neg_from(elem, 1, i - 1, bool_zero))]

num_neg(elem) ==
    [i \in 1..Len(elem) |->
        bool_xor(bool_not(elem[i]), num_neg_from(elem, 1, i - 1, bool_unit))]

\* an assertion that lets operands of any two lengths pass
same_len_any(elem1, elem2) == Len(elem1) >= 0 /\ Len(elem2) >= 0

\* two operands of different lengths fail the assertion of the operation
same_len(elem1, elem2) == Len(elem1) = Len(elem2)

\* the carry of the map of num_add after the bits lo..hi
RECURSIVE num_add_from(_, _, _, _, _)
num_add_from(elem1, elem2, lo, hi, carry) ==
    IF lo > hi THEN carry
    ELSE IF lo = hi THEN bool_maj(elem1[lo], elem2[lo], carry)
    ELSE IF num_add_from(elem1, elem2, lo, (lo + hi) \div 2, carry)
         THEN num_add_from(elem1, elem2, (lo + hi) \div 2 + 1, hi, TRUE)
         ELSE num_add_from(elem1, elem2, (lo + hi) \div 2 + 1, hi, FALSE)

\* num_add whose carry never propagates
num_add_nocarry(elem1, elem2) ==
    [i \in 1..zip_len(elem1, elem2) |-> bool_xor(elem1[i], elem2[i])]

num_add(elem1, elem2) ==
    [i \in 1..zip_len(elem1, elem2) |->
        bool_sum3(elem1[i], elem2[i],
                  num_add_from(elem1, elem2, 1, i - 1, bool_zero))]

\* the carry of the map of num_sub after the bits lo..hi
RECURSIVE num_sub_from(_, _, _, _, _)
num_sub_from(elem1, elem2, lo, hi, carry) ==
    IF lo > hi THEN carry
    ELSE IF lo = hi THEN bool_maj(elem1[lo], bool_not(elem2[lo]), carry)
    ELSE IF num_sub_from(elem1, elem2, lo, (lo + hi) \div 2, carry)
         THEN num_sub_from(elem1, elem2, (lo + hi) \div 2 + 1, hi, TRUE)
         ELSE num_sub_from(elem1, elem2, (lo + hi) \div 2 + 1, hi, FALSE)

\* num_sub that starts without a carry, computing a + ~b
num_sub_nocarry(elem1, elem2) ==
    [i \in 1..zip_len(elem1, elem2) |->
        bool_sum3(elem1[i], bool_not(elem2[i]),
                  num_sub_from(elem1, elem2, 1, i - 1, bool_zero))]

num_sub(elem1, elem2) ==
    [i \in 1..zip_len(elem1, elem2) |->
        bool_sum3(elem1[i], bool_not(elem2[i]),
                  num_sub_from(elem1, elem2, 1, i - 1, bool_unit))]

\* the result of the loop of num_eq after the bits lo..hi
RECURSIVE num_eq_from(_, _, _, _, _)
num_eq_from(elem1, elem2, lo, hi, result) ==
    IF lo > hi THEN result
    ELSE IF lo = hi THEN bool_and(result, bool_equ(elem1[lo], elem2[lo]))
    ELSE IF num_eq_from(elem1, elem2, lo, (lo + hi) \div 2, result)
         THEN num_eq_from(elem1, elem2, (lo + hi) \div 2 + 1, hi, TRUE)
         ELSE num_eq_from(elem1, elem2, (lo + hi) \div 2 + 1, hi, FALSE)

\* num_eq that keeps the equivalence of the last bit only
num_eq_last(elem1, elem2) ==
    from_elem(IF zip_len(elem1, elem2) = 0 THEN bool_unit
              ELSE bool_equ(elem1[zip_len(elem1, elem2)],
                            elem2[zip_len(elem1, elem2)]))

num_eq(elem1, elem2) ==
    from_elem(num_eq_from(elem1, elem2, 1, zip_len(elem1, elem2), bool_unit))

num_ne(elem1, elem2) ==
    LET elem == num_eq(elem1, elem2)
    IN  set(elem, 0, bool_not(get(elem, 0)))

\* the result of the loop of num_le after the bits lo..hi
RECURSIVE num_le_from(_, _, _, _, _)
num_le_from(elem1, elem2, lo, hi, result) ==
    IF lo > hi THEN result
    ELSE IF lo = hi THEN bool_maj(bool_not(elem1[lo]), elem2[lo], result)
    ELSE IF num_le_from(elem1, elem2, lo, (lo + hi) \div 2, result)
         THEN num_le_from(elem1, elem2, (lo + hi) \div 2 + 1, hi, TRUE)
         ELSE num_le_from(elem1, elem2, (lo + hi) \div 2 + 1, hi, FALSE)

\* num_le whose running result starts as false
num_le_zero(elem1, elem2) ==
    from_elem(num_le_from(elem1, elem2, 1, zip_len(elem1, elem2), bool_zero))

num_le(elem1, elem2) ==
    from_elem(num_le_from(elem1, elem2, 1, zip_len(elem1, elem2), bool_unit))

\* num_lt that does not exchange its operands
num_lt_unswapped(elem1, elem2) ==
    LET elem == num_le(elem1, elem2)
    IN  set(elem, 0, bool_not(get(elem, 0)))

num_lt(elem1, elem2) ==
    LET elem == num_le(elem2, elem1)
    IN  set(elem, 0, bool_not(get(elem, 0)))

(***************************************************************************)
(* The default methods of the trait BinaryAlg (binary.rs 49-128).  The     *)
(* methods they call are those of the implementation for a BoolAlg above,  *)
(* which overrides every one of them.                                      *)
(***************************************************************************)
default_bit_and(elem1, elem2) == bit_not(bit_imp(elem1, bit_not(elem2)))

default_bit_equ(elem1, elem2) == bit_xor(bit_not(elem1), elem2)

default_bit_imp(elem1, elem2) == bit_or(bit_not(elem1), elem2)

default_bit_any(elem) == bit_not(bit_all(bit_not(elem)))

\* the default num_neg lifts the number 1 to the length of the vector
default_num_neg_ok(elem) == num_lift_ok(Len(bit_not(elem)))

default_num_neg(elem) ==
    num_add(bit_not(elem), num_lift(Len(bit_not(elem)), 1))

default_num_sub(elem1, elem2) == num_add(elem1, num_neg(elem2))

default_num_ne(elem1, elem2) == bit_not(num_eq(elem1, elem2))

default_num_lt(elem1, elem2) == bit_not(num_le(elem2, elem1))

(***************************************************************************)
(* The tensor program.  It holds one tensor, built by Tensor::new and      *)
(* replaced by the result of every operation applied to it.  The program   *)
(* calls polymer, reshape_join, the folds and the elementwise operations   *)
(* with arguments that satisfy their documented preconditions; a call that *)
(* panics ends the program.  op and prev record the call that has just     *)
(* returned and the tensor it was applied to, for the properties to refer  *)
(* to; Forget drops the record before the next call.                       *)
(***************************************************************************)
Shapes == {dims \in SeqsUpTo(0..MaxDim, MaxRank) : size(dims) <= MaxSize}

NoOp == [name |-> "none", shape |-> <<>>, mapping |-> <<>>, count |-> 0,
         elem |-> FALSE, other |-> <<>>]

NoModel == [sat |-> FALSE, val |-> <<>>]

NoBin == [name |-> "none", len |-> 0, x |-> 0, y |-> 0, a |-> <<>>, b |-> <<>>]

\* the variables of the tensor program when it has not started
TensorIdle ==
    /\ t = [alg |-> "Boolean", shape |-> <<>>, elems |-> <<FALSE>>]
    /\ prev = t
    /\ op = NoOp
    /\ res = "ok"
    /\ nvars = 0
    /\ clauses = <<>>
    /\ model = NoModel
    /\ value = <<>>

\* the variables of the StrideIter program when it has not started
IterIdle ==
    /\ iter = [entries |-> <<>>, index |-> 0, done |-> TRUE]
    /\ ishape = <<>>
    /\ calls = 0
    /\ emitted = 0
    /\ last = None

\* the variables of the arithmetic program when it has not started
BinIdle ==
    /\ bop = NoBin
    /\ out = <<>>
    /\ bres = "ok"
    /\ checks = FALSE

NoVecOp ==
    [name |-> "none", index |-> 0, elem |-> FALSE, len |-> 0, elems |-> <<>>]

\* the variables of the vector program when it has not started
VecIdle ==
    /\ vec = [dense |-> Vec_new, bits |-> BitVec_new, unit |-> Unit_new]
    /\ vprev = vec
    /\ vop = NoVecOp
    /\ vret = [dense |-> <<>>, bits |-> <<>>, unit |-> <<>>]
    /\ vres = [dense |-> "ok", bits |-> "ok", unit |-> "ok"]
    /\ debug = FALSE

\* the program is between two calls
Idle == res = "ok" /\ op.name = "none"

\* the result of a call: the new tensor, or a panic
Return(ok, tensor) ==
    /\ prev' = t
    /\ IF ok THEN t' = tensor /\ res' = "ok" ELSE t' = t /\ res' = "panic"

Init ==
    /\ \E shape \in Shapes :
       \E elems \in [1..size(shape) -> BOOLEAN] :
          t = Tensor_new("Boolean", shape, elems)
    /\ prev = t
    /\ op = [NoOp EXCEPT !.name = "new"]
    /\ res = "ok"
    /\ nvars = 0
    /\ clauses = <<>>
    /\ model = NoModel
    /\ value = <<>>
    /\ IterIdle
    /\ BinIdle
    /\ VecIdle

Forget ==
    /\ res = "ok"
    /\ op.name # "none"
    /\ op' = NoOp
    /\ prev' = t
    /\ value' = <<>>
    /\ UNCHANGED <<t, res, nvars, clauses, model, ivars, bvars, vvars>>

Constant ==
    /\ Idle
    /\ t.alg = "Boolean"
    /\ \E shape \in Shapes, elem \in BOOLEAN :
          /\ op' = [NoOp EXCEPT !.name = "constant", !.shape = shape,
                                !.elem = elem]
          /\ Return(TRUE, constant("Boolean", shape, elem))
    /\ UNCHANGED <<nvars, clauses, model, value, ivars, bvars, vvars>>

Scalar ==
    /\ Idle
    /\ t.alg = "Boolean"
    /\ \E elem \in BOOLEAN :
          /\ op' = [NoOp EXCEPT !.name = "scalar", !.elem = elem]
          /\ Return(TRUE, scalar(elem))
    /\ UNCHANGED <<nvars, clauses, model, value, ivars, bvars, vvars>>

Diagonal ==
    /\ Idle
    /\ t.alg = "Boolean"
    /\ \E dim \in 0..MaxDim :
          /\ <<dim, dim>> \in Shapes
          /\ op' = [NoOp EXCEPT !.name = "diagonal", !.count = dim]
          /\ Return(diagonal_ok(dim), diagonal(dim))
    /\ UNCHANGED <<nvars, clauses, model, value, ivars, bvars, vvars>>

VerySlowSet ==
    /\ Idle
    /\ t.alg = "Boolean"
    /\ \E coords \in SeqsUpTo(0..MaxDim, MaxRank + 1), elem \in BOOLEAN :
          /\ op' = [NoOp EXCEPT !.name = "very_slow_set", !.mapping = coords,
                                !.elem = elem]
          /\ Return(very_slow_set_ok(t, coords), very_slow_set(t, coords, elem))
    /\ UNCHANGED <<nvars, clauses, model, value, ivars, bvars, vvars>>

Polymer ==
    /\ Idle
    /\ \E shape \in Shapes :
       \E mapping \in [1..Len(t.shape) -> 1..Len(shape)] :
          /\ polymer_pre(t, shape, mapping)
          /\ op' = [NoOp EXCEPT !.name = "polymer", !.shape = shape,
                                !.mapping = mapping]
          /\ Return(polymer_ok(t, shape, mapping), polymer(t, shape, mapping))
    /\ UNCHANGED <<nvars, clauses, model, value, ivars, bvars, vvars>>

ReshapeJoin ==
    /\ Idle
    /\ \E count \in 0..Len(t.shape) :
          /\ Len(t.shape) - count + 1 <= MaxRank
          /\ op' = [NoOp EXCEPT !.name = "reshape_join", !.count = count]
          /\ Return(reshape_join_ok(t, count), reshape_join(t, count))
    /\ UNCHANGED <<nvars, clauses, model, value, ivars, bvars, vvars>>

TensorNot ==
    /\ Idle
    /\ t.alg = "Boolean"
    /\ op' = [NoOp EXCEPT !.name = "tensor_not"]
    /\ Return(tensor_not_ok(t), tensor_not(t))
    /\ UNCHANGED <<nvars, clauses, model, value, ivars, bvars, vvars>>

\* the second operand of an elementwise operation: a tensor of the shape
\* of the first
Operands == {Tensor_new("Boolean", t.shape, elems) :
                elems \in [1..size(t.shape) -> BOOLEAN]}

TensorOr ==
    /\ Idle
    /\ t.alg = "Boolean"
    /\ \E elem2 \in Operands :
          /\ op' = [NoOp EXCEPT !.name = "tensor_or", !.other = elem2.elems]
          /\ Return(tensor_zip_ok(t, elem2), tensor_or(t, elem2))
    /\ UNCHANGED <<nvars, clauses, model, value, ivars, bvars, vvars>>

TensorAnd ==
    /\ Idle
    /\ t.alg = "Boolean"
    /\ \E elem2 \in Operands :
          /\ op' = [NoOp EXCEPT !.name = "tensor_and", !.other = elem2.elems]
          /\ Return(tensor_zip_ok(t, elem2), tensor_and(t, elem2))
    /\ UNCHANGED <<nvars, clauses, model, value, ivars, bvars, vvars>>

TensorXor ==
    /\ Idle
    /\ t.alg = "Boolean"
    /\ \E elem2 \in Operands :
          /\ op' = [NoOp EXCEPT !.name = "tensor_xor", !.other = elem2.elems]
          /\ Return(tensor_zip_ok(t, elem2), tensor_xor(t, elem2))
    /\ UNCHANGED <<nvars, clauses, model, value, ivars, bvars, vvars>>

TensorEqu ==
    /\ Idle
    /\ t.alg = "Boolean"
    /\ \E elem2 \in Operands :
          /\ op' = [NoOp EXCEPT !.name = "tensor_equ", !.other = elem2.elems]
          /\ Return(tensor_zip_ok(t, elem2), tensor_equ(t, elem2))
    /\ UNCHANGED <<nvars, clauses, model, value, ivars, bvars, vvars>>

TensorImp ==
    /\ Idle
    /\ t.alg = "Boolean"
    /\ \E elem2 \in Operands :
          /\ op' = [NoOp EXCEPT !.name = "tensor_imp", !.other = elem2.elems]
          /\ Return(tensor_zip_ok(t, elem2), tensor_imp(t, elem2))
    /\ UNCHANGED <<nvars, clauses, model, value, ivars, bvars, vvars>>

TensorAll ==
    /\ Idle
    /\ t.alg = "Boolean"
    /\ t.shape # <<>>
    /\ size(Tail(t.shape)) <= MaxSize
    /\ op' = [NoOp EXCEPT !.name = "tensor_all"]
    /\ Return(tensor_fold_ok(t), tensor_all(t))
    /\ UNCHANGED <<nvars, clauses, model, value, ivars, bvars, vvars>>

TensorAny ==
    /\ Idle
    /\ t.alg = "Boolean"
    /\ t.shape # <<>>
    /\ size(Tail(t.shape)) <= MaxSize
    /\ op' = [NoOp EXCEPT !.name = "tensor_any"]
    /\ Return(tensor_fold_ok(t), tensor_any(t))
    /\ UNCHANGED <<nvars, clauses, model, value, ivars, bvars, vvars>>

TensorSum ==
    /\ Idle
    /\ t.alg = "Boolean"
    /\ t.shape # <<>>
    /\ size(Tail(t.shape)) <= MaxSize
    /\ op' = [NoOp EXCEPT !.name = "tensor_sum"]
    /\ Return(tensor_fold_ok(t), tensor_sum(t))
    /\ UNCHANGED <<nvars, clauses, model, value, ivars, bvars, vvars>>

TensorAddVariable ==
    /\ Idle
    /\ \E shape \in Shapes :
          /\ nvars + size(shape) <= MaxVars
          /\ op' = [NoOp EXCEPT !.name = "tensor_add_variable",
                                !.shape = shape]
          /\ nvars' = nvars + size(shape)
          /\ Return(Tensor_new_ok(shape, tensor_add_variable(nvars, shape).elems),
                    tensor_add_variable(nvars, shape))
    /\ UNCHANGED <<clauses, model, value, ivars, bvars, vvars>>

TensorFindModel ==
    /\ Idle
    /\ t.alg = "Solver"
    /\ op' = [NoOp EXCEPT !.name = "tensor_find_model"]
    /\ \/ model' = NoModel
       \/ \E val \in [1..nvars -> BOOLEAN] : model' = [sat |-> TRUE, val |-> val]
    /\ UNCHANGED <<t, prev, res, nvars, clauses, value, ivars, bvars, vvars>>

TensorGetValue ==
    /\ Idle
    /\ t.alg = "Solver"
    /\ op' = [NoOp EXCEPT !.name = "tensor_get_value"]
    /\ IF /\ model.sat
          /\ tensor_get_value_ok(model.val, t)
          /\ Tensor_new_ok(t.shape, t.elems)
       THEN value' = <<tensor_get_value(model.val, t)>> /\ res' = "ok"
       ELSE value' = value /\ res' = "panic"
    /\ UNCHANGED <<t, prev, nvars, clauses, model, ivars, bvars, vvars>>

Next ==
    \/ Forget
    \/ Constant
    \/ Scalar
    \/ Diagonal
    \/ VerySlowSet
    \/ Polymer
    \/ ReshapeJoin
    \/ TensorNot
    \/ TensorOr
    \/ TensorAnd
    \/ TensorXor
    \/ TensorEqu
    \/ TensorImp
    \/ TensorAll
    \/ TensorAny
    \/ TensorSum
    \/ TensorAddVariable
    \/ TensorFindModel
    \/ TensorGetValue

Spec == Init /\ [][Next]_vars

(***************************************************************************)
(* Properties of the tensor program.                                       *)
(***************************************************************************)
\* the valid coordinate tuples of a shape
RECURSIVE Coords(_)
Coords(dims) ==
    IF dims = <<>> THEN {<<>>}
    ELSE {<<c>> \o rest : c \in 0..(Head(dims) - 1), rest \in Coords(Tail(dims))}

\* C1: a polymer call whose arguments satisfy the preconditions returns a
\* tensor of the target shape whose cell at every valid coordinate tuple c is
\* the cell of the source at (c[mapping[0]], ..., c[mapping[n-1]]).
C1_PolymerCells ==
    op.name = "polymer" =>
        /\ res = "ok"
        /\ t.shape = op.shape
        /\ \A c \in Coords(op.shape) :
              very_slow_get(t, c) =
                  very_slow_get(prev, [i \in 1..Len(op.mapping) |->
                                          c[op.mapping[i]]])

\* a polymer call that permutes the two dimensions of a tensor of shape [2,3]
\* with different cells, one that broadcasts and one that identifies
C1_Witness ==
    /\ op.name = "polymer" /\ res = "ok"
    /\ prev.shape = <<2, 3>> /\ op.shape = <<3, 2>> /\ op.mapping = <<2, 1>>
    /\ prev.elems = <<TRUE, FALSE, FALSE, FALSE, TRUE, TRUE>>
    /\ t.elems # prev.elems

\* C2: every tensor that exists has as many elements as its shape has cells.
C2_TensorInv ==
    /\ Len(t.elems) = size(t.shape)
    /\ Len(prev.elems) = size(prev.shape)
    /\ \A i \in DOMAIN value : Len(value[i].elems) = size(value[i].shape)

\* a tensor of more than one cell produced by reshape_join, and a tensor read
\* from a model
C2_Witness ==
    /\ op.name = "reshape_join" /\ res = "ok"
    /\ op.count = 2 /\ prev.shape = <<2, 3>> /\ Len(t.elems) = 6

\* C4: tensor_all of a tensor of shape [d0, d1, ..., dk] has the shape
\* [d1, ..., dk] and its cell at (c1..ck) is the conjunction of the cells
\* [i, c1..ck] for i in 0..d0, true when d0 = 0.
C4_TensorAllCells ==
    op.name = "tensor_all" =>
        /\ res = "ok"
        /\ t.shape = Tail(prev.shape)
        /\ \A c \in Coords(t.shape) :
              very_slow_get(t, c) =
                  (\A i \in 0..(Head(prev.shape) - 1) :
                      very_slow_get(prev, <<i>> \o c))

\* tensor_all of a tensor of shape [2,3] with a true and a false result
C4_Witness ==
    /\ op.name = "tensor_all" /\ res = "ok"
    /\ prev.shape = <<2, 3>>
    /\ t.elems = <<FALSE, TRUE, FALSE>>

\* C5: reshape_join(count) leaves the elements unchanged and replaces the
\* shape by the product of the first count dimensions followed by the
\* remaining ones, so the size is unchanged; when count is the number of
\* dimensions, tensor_all of the result over the concrete algebra is the
\* scalar AND of all cells.
C5_ReshapeJoinFrame ==
    op.name = "reshape_join" =>
        /\ res = "ok"
        /\ t.elems = prev.elems
        /\ t.shape = <<size(SubSeq(prev.shape, 1, op.count))>>
                     \o SubSeq(prev.shape, op.count + 1, Len(prev.shape))
        /\ size(t.shape) = size(prev.shape)
        /\ (t.alg = "Boolean" /\ op.count = Len(prev.shape)) =>
              /\ tensor_fold_ok(t)
              /\ tensor_all(t).shape = <<>>
              /\ tensor_all(t).elems =
                    <<\A i \in 1..Len(prev.elems) : prev.elems[i]>>

\* reshape_join(2) of a tensor of shape [2,3] whose cells are not all equal
C5_Witness ==
    /\ op.name = "reshape_join" /\ res = "ok"
    /\ op.count = 2 /\ prev.shape = <<2, 3>> /\ t.shape = <<6>>
    /\ prev.elems = <<TRUE, TRUE, FALSE, TRUE, TRUE, TRUE>>

(***************************************************************************)
(* The StrideIter program: a StrideIter is constructed for a shape,        *)
(* strides are added to its entries and next() is called until it has      *)
(* returned None ExtraCalls times.                                         *)
(***************************************************************************)
IterInit ==
    /\ \E dims \in Shapes :
          /\ iter = StrideIter_new(dims)
          /\ ishape = dims
    /\ calls = 0
    /\ emitted = 0
    /\ last = None
    /\ TensorIdle
    /\ BinIdle
    /\ VecIdle

AddStride ==
    /\ calls = 0
    /\ \E idx \in 1..Len(ishape), stride \in 1..MaxStride :
          /\ iter.entries[idx][3] + stride <= MaxStride
          /\ iter' = add_stride(iter, idx, stride)
    /\ UNCHANGED <<ishape, calls, emitted, last, tvars, bvars, vvars>>

IterNext ==
    /\ calls < size(ishape) + ExtraCalls
    /\ iter' = next(iter).it
    /\ last' = next(iter).ret
    /\ calls' = calls + 1
    /\ emitted' = IF next(iter).ret = None THEN emitted ELSE emitted + 1
    /\ UNCHANGED <<ishape, tvars, bvars, vvars>>

NextIter ==
    \/ AddStride
    \/ IterNext

SpecIter == IterInit /\ [][NextIter]_vars

\* C3: a freshly constructed StrideIter returns a value from exactly the
\* first size(shape) calls of next() and None from every later call,
\* whatever strides were added: one value for the empty shape and none when
\* a dimension is 0.
C3_IterTerminates ==
    /\ emitted = (IF calls <= size(ishape) THEN calls ELSE size(ishape))
    /\ calls > 0 => ((last = None) <=> (calls > size(ishape)))

\* an iterator over the shape [2,3] with strides that has returned its six
\* values and then None twice
C3_Witness ==
    /\ ishape = <<2, 3>>
    /\ iter.entries[1][3] = 2 /\ iter.entries[2][3] = 1
    /\ calls = 8 /\ emitted = 6 /\ last = None

(***************************************************************************)
(* The arithmetic program: one call of an operation of the binary          *)
(* arithmetic layer, as the test opers makes them, on operands lifted from *)
(* numbers or from bits.  The build has overflow checks or has not.        *)
(***************************************************************************)
\* the numbers of a width
Numbers(n) == 0..(2 ^ n - 1)

\* the lengths num_lift is called with: short ones and the ones around the
\* number of bits of i64
LiftLens == (0..MaxWidth) \cup {I64Bits - 1, I64Bits, I64Bits + 1}

\* the values num_lift is called with
LiftValues == (-(2 ^ MaxWidth))..(2 ^ MaxWidth)

BinInit ==
    /\ bop = NoBin
    /\ out = <<>>
    /\ bres = "ok"
    /\ checks \in BOOLEAN
    /\ TensorIdle
    /\ IterIdle
    /\ VecIdle

\* the result of a call: the vector it returns, or a panic
BinReturn(ok, elem) ==
    IF ok THEN out' = elem /\ bres' = "ok" ELSE out' = <<>> /\ bres' = "panic"

NumLift ==
    /\ bop.name = "none"
    /\ \E len \in LiftLens, v \in LiftValues :
          /\ bop' = [NoBin EXCEPT !.name = "num_lift", !.len = len, !.x = v]
          /\ BinReturn(num_lift_ok(len), num_lift(len, v))
    /\ UNCHANGED <<checks, tvars, ivars, vvars>>

NumLiftTrivial ==
    /\ bop.name = "none"
    /\ \E len \in LiftLens, v \in LiftValues :
          /\ bop' = [NoBin EXCEPT !.name = "num_lift_trivial", !.len = len,
                                  !.x = v]
          /\ BinReturn(num_lift_ok(len), num_lift_trivial(len, v))
    /\ UNCHANGED <<checks, tvars, ivars, vvars>>

NumNeg ==
    /\ bop.name = "none"
    /\ \E n \in 0..MaxWidth :
       \E x \in Numbers(n) :
          /\ bop' = [NoBin EXCEPT !.name = "num_neg", !.len = n, !.x = x,
                                  !.a = num_lift(n, x)]
          /\ BinReturn(num_lift_ok(n), num_neg(num_lift(n, x)))
    /\ UNCHANGED <<checks, tvars, ivars, vvars>>

NumAdd ==
    /\ bop.name = "none"
    /\ \E n \in 0..MaxWidth :
       \E x \in Numbers(n), y \in Numbers(n) :
          /\ bop' = [NoBin EXCEPT !.name = "num_add", !.len = n, !.x = x,
                                  !.y = y, !.a = num_lift(n, x),
                                  !.b = num_lift(n, y)]
          /\ BinReturn(num_lift_ok(n)
                          /\ same_len(num_lift(n, x), num_lift(n, y)),
                       num_add(num_lift(n, x), num_lift(n, y)))
    /\ UNCHANGED <<checks, tvars, ivars, vvars>>

NumSub ==
    /\ bop.name = "none"
    /\ \E n \in 0..MaxWidth :
       \E x \in Numbers(n), y \in Numbers(n) :
          /\ bop' = [NoBin EXCEPT !.name = "num_sub", !.len = n, !.x = x,
                                  !.y = y, !.a = num_lift(n, x),
                                  !.b = num_lift(n, y)]
          /\ BinReturn(num_lift_ok(n)
                          /\ same_len(num_lift(n, x), num_lift(n, y)),
                       num_sub(num_lift(n, x), num_lift(n, y)))
    /\ UNCHANGED <<checks, tvars, ivars, vvars>>

NumEq ==
    /\ bop.name = "none"
    /\ \E n \in 0..MaxWidth :
       \E a \in [1..n -> BOOLEAN], b \in [1..n -> BOOLEAN] :
          /\ bop' = [NoBin EXCEPT !.name = "num_eq", !.len = n,
                                  !.a = bit_lift(a), !.b = bit_lift(b)]
          /\ BinReturn(same_len(bit_lift(a), bit_lift(b)),
                       num_eq(bit_lift(a), bit_lift(b)))
    /\ UNCHANGED <<checks, tvars, ivars, vvars>>

NumNe ==
    /\ bop.name = "none"
    /\ \E n \in 0..MaxWidth :
       \E a \in [1..n -> BOOLEAN], b \in [1..n -> BOOLEAN] :
          /\ bop' = [NoBin EXCEPT !.name = "num_ne", !.len = n,
                                  !.a = bit_lift(a), !.b = bit_lift(b)]
          /\ BinReturn(same_len(bit_lift(a), bit_lift(b)),
                       num_ne(bit_lift(a), bit_lift(b)))
    /\ UNCHANGED <<checks, tvars, ivars, vvars>>

NumLe ==
    /\ bop.name = "none"
    /\ \E n \in 0..MaxWidth :
       \E a \in [1..n -> BOOLEAN], b \in [1..n -> BOOLEAN] :
          /\ bop' = [NoBin EXCEPT !.name = "num_le", !.len = n,
                                  !.a = bit_lift(a), !.b = bit_lift(b)]
          /\ BinReturn(same_len(bit_lift(a), bit_lift(b)),
                       num_le(bit_lift(a), bit_lift(b)))
    /\ UNCHANGED <<checks, tvars, ivars, vvars>>

NumLt ==
    /\ bop.name = "none"
    /\ \E n \in 0..MaxWidth :
       \E a \in [1..n -> BOOLEAN], b \in [1..n -> BOOLEAN] :
          /\ bop' = [NoBin EXCEPT !.name = "num_lt", !.len = n,
                                  !.a = bit_lift(a), !.b = bit_lift(b)]
          /\ BinReturn(same_len(bit_lift(b), bit_lift(a)),
                       num_lt(bit_lift(a), bit_lift(b)))
    /\ UNCHANGED <<checks, tvars, ivars, vvars>>

NextBin ==
    \/ NumLift
    \/ NumLiftTrivial
    \/ NumNeg
    \/ NumAdd
    \/ NumSub
    \/ NumEq
    \/ NumNe
    \/ NumLe
    \/ NumLt

SpecBin == BinInit /\ [][NextBin]_vars

\* bit i of the two's complement representation of the number v, for a
\* number below 2 ^ ValueBits in magnitude, whose bits from ValueBits on are
\* copies of its sign
Bit(v, i) == IF i >= ValueBits THEN v < 0 ELSE (v \div (2 ^ i)) % 2 = 1

\* the vector of the n lowest bits of v, least significant bit first
Bits(n, v) == [k \in 1..n |-> Bit(v, k - 1)]

\* C6: num_add of the lifts of a and b is the lift of (a + b) mod 2^n.
C6_NumAdd ==
    bop.name = "num_add" =>
        /\ bres = "ok"
        /\ out = num_lift(bop.len, (bop.x + bop.y) % (2 ^ bop.len))
        /\ out = Bits(bop.len, bop.x + bop.y)

\* 4-bit operands whose sum does not fit 4 bits: 9 + 12 = 21 = 16 + 5
C6_Witness ==
    /\ bop.name = "num_add" /\ bres = "ok"
    /\ bop.len = 4 /\ bop.x = 9 /\ bop.y = 12
    /\ out = <<TRUE, FALSE, TRUE, FALSE>>

\* C7: num_sub of the lifts of a and b is the lift of (a - b) mod 2^n.
C7_NumSub ==
    bop.name = "num_sub" =>
        /\ bres = "ok"
        /\ out = num_lift(bop.len, (bop.x - bop.y) % (2 ^ bop.len))
        /\ out = Bits(bop.len, bop.x - bop.y)

\* 4-bit operands whose difference is negative: 3 - 5 = -2 = 14 - 16
C7_Witness ==
    /\ bop.name = "num_sub" /\ bres = "ok"
    /\ bop.len = 4 /\ bop.x = 3 /\ bop.y = 5
    /\ out = <<FALSE, TRUE, TRUE, TRUE>>

\* C8: num_neg of the lift of x is the lift of (2^n - x) mod 2^n, which is
\* 0 for x = 0.
C8_NumNeg ==
    bop.name = "num_neg" =>
        /\ bres = "ok"
        /\ out = num_lift(bop.len, (2 ^ bop.len - bop.x) % (2 ^ bop.len))
        /\ out = Bits(bop.len, 2 ^ bop.len - bop.x)
        /\ bop.x = 0 => out = [k \in 1..bop.len |-> FALSE]

\* the negation of the 4-bit 0, where the carry runs through every bit
C8_Witness ==
    /\ bop.name = "num_neg" /\ bres = "ok"
    /\ bop.len = 4 /\ bop.x = 0
    /\ out = <<FALSE, FALSE, FALSE, FALSE>>

\* C9: num_lift(len, v) returns the vector of the len lowest bits of the
\* two's complement representation of v, so it returns the same vector
\* for two numbers congruent modulo 2^len; over the trivial algebra it
\* returns the unit vector of length len.
C9_NumLift ==
    /\ bop.name = "num_lift" =>
          /\ bres = "ok"
          /\ Len(out) = bop.len
          /\ \A i \in 0..(bop.len - 1) : get(out, i) = Bit(bop.x, i)
          /\ \A w \in LiftValues :
                (bop.len < ValueBits /\ (bop.x - w) % (2 ^ bop.len) = 0)
                    => num_lift(bop.len, w) = out
    /\ bop.name = "num_lift_trivial" =>
          /\ bres = "ok"
          /\ out = [k \in 1..bop.len |-> "unit"]

\* C10: num_eq of two vectors of one length is the 1-element vector that
\* holds true exactly when they are equal bit for bit, and num_ne is the
\* 1-element vector of the negation.
C10_NumEqNe ==
    /\ bop.name = "num_eq" =>
          /\ bres = "ok"
          /\ out = <<\A i \in 1..bop.len : bop.a[i] = bop.b[i]>>
    /\ bop.name = "num_ne" =>
          /\ bres = "ok"
          /\ out = <<\E i \in 1..bop.len : bop.a[i] # bop.b[i]>>

\* num_ne of two 4-bit vectors that differ in their first bit only
C10_Witness ==
    /\ bop.name = "num_ne" /\ bres = "ok"
    /\ bop.a = <<TRUE, FALSE, TRUE, TRUE>>
    /\ bop.b = <<FALSE, FALSE, TRUE, TRUE>>
    /\ out = <<TRUE>>

\* the number a vector of bits holds when read as an unsigned binary number,
\* least significant bit first
RECURSIVE Unsigned(_)
Unsigned(elem) ==
    IF elem = <<>> THEN 0
    ELSE (IF Head(elem) THEN 1 ELSE 0) + 2 * Unsigned(Tail(elem))

\* the number a non-empty vector of bits holds when read in two's complement
Signed(elem) ==
    IF elem[Len(elem)] THEN Unsigned(elem) - 2 ^ Len(elem) ELSE Unsigned(elem)

\* C11: num_le of two vectors of one length is the 1-element vector that
\* holds (a <= b) of the unsigned numbers they hold, num_lt the one that
\* holds (a < b), and num_lt(a, b) is the negation of num_le(b, a).
C11_NumLeLt ==
    /\ bop.name = "num_le" =>
          /\ bres = "ok"
          /\ out = <<Unsigned(bop.a) <= Unsigned(bop.b)>>
    /\ bop.name = "num_lt" =>
          /\ bres = "ok"
          /\ out = <<Unsigned(bop.a) < Unsigned(bop.b)>>
          /\ out = bit_not(num_le(bop.b, bop.a))

\* num_le of 5 and 9, which differ in more than their highest bit, and of
\* two equal numbers
C11_Witness ==
    /\ bop.name = "num_le" /\ bres = "ok"
    /\ bop.a = <<TRUE, FALSE, TRUE, FALSE>>
    /\ bop.b = <<TRUE, FALSE, FALSE, TRUE>>
    /\ out = <<TRUE>>

\* C12 as claimed: on 4-bit encodings num_eq, num_ne, num_le and num_lt
\* return the comparison of the two's complement values of the encodings.
C12_SignedCompare ==
    (bres = "ok" /\ bop.len = 4) =>
        /\ bop.name = "num_eq" => out = <<Signed(bop.a) = Signed(bop.b)>>
        /\ bop.name = "num_ne" => out = <<Signed(bop.a) # Signed(bop.b)>>
        /\ bop.name = "num_le" => out = <<Signed(bop.a) <= Signed(bop.b)>>
        /\ bop.name = "num_lt" => out = <<Signed(bop.a) < Signed(bop.b)>>

\* C12 as the code has it: on 4-bit encodings num_eq and num_ne return the
\* comparison of the two's complement values; num_le and num_lt return the
\* comparison of the unsigned values, which is the comparison of the two's
\* complement values when the sign bits of the encodings agree and the
\* reverse comparison (a > b) when they differ.
C12_UnsignedCompare ==
    (bres = "ok" /\ bop.len = 4) =>
        /\ bop.name = "num_eq" => out = <<Signed(bop.a) = Signed(bop.b)>>
        /\ bop.name = "num_ne" => out = <<Signed(bop.a) # Signed(bop.b)>>
        /\ bop.name = "num_le" =>
              /\ out = <<Unsigned(bop.a) <= Unsigned(bop.b)>>
              /\ bop.a[4] = bop.b[4]
                    => out = <<Signed(bop.a) <= Signed(bop.b)>>
              /\ bop.a[4] # bop.b[4]
                    => out = <<Signed(bop.a) > Signed(bop.b)>>
        /\ bop.name = "num_lt" =>
              /\ out = <<Unsigned(bop.a) < Unsigned(bop.b)>>
              /\ bop.a[4] = bop.b[4]
                    => out = <<Signed(bop.a) < Signed(bop.b)>>
              /\ bop.a[4] # bop.b[4]
                    => out = <<Signed(bop.a) > Signed(bop.b)>>

\* num_le of the encodings of -1 and 0, which is false
C12_Witness ==
    /\ bop.name = "num_le" /\ bres = "ok"
    /\ bop.a = <<TRUE, TRUE, TRUE, TRUE>>
    /\ bop.b = <<FALSE, FALSE, FALSE, FALSE>>
    /\ out = <<FALSE>>

(***************************************************************************)
(* The vector program: a dense, a bit-packed and a unit vector are built   *)
(* in parallel, as the test resize builds them, by pushing up to MaxLen    *)
(* elements; then the program may resize them, and then it makes one more  *)
(* call on each of them.  A vector split may be concatenated again.        *)
(***************************************************************************)
\* the lengths resize is called with: short ones and the ones around the
\* number of bits of a word
ResizeLens == (0..(MaxLen + 1)) \cup {WordBits - 1, WordBits, WordBits + 1}

\* the lengths split is called with
SplitLens == (0..(MaxLen + 1)) \cup {WordBits - 1, WordBits}

\* the most vectors the program splits a vector into
MaxParts == MaxLen + 1

\* the vectors are being built: nothing but new and push has been called
Building == vop.name \in {"new", "push"}

\* the vectors are built, and resized or not
Built == vop.name \in {"new", "push", "resize"}

AllOk == [dense |-> "ok", bits |-> "ok", unit |-> "ok"]

NoRet == [dense |-> <<>>, bits |-> <<>>, unit |-> <<>>]

\* "ok" or "panic"
Outcome(ok) == IF ok THEN "ok" ELSE "panic"

VecInit ==
    /\ vec = [dense |-> Vec_new, bits |-> BitVec_new, unit |-> Unit_new]
    /\ vprev = vec
    /\ vop = [NoVecOp EXCEPT !.name = "new"]
    /\ vret = NoRet
    /\ vres = AllOk
    /\ debug \in BOOLEAN
    /\ TensorIdle
    /\ IterIdle
    /\ BinIdle

VecPush ==
    /\ Building
    /\ Vec_len(vec.dense) < MaxLen
    /\ \E elem \in BOOLEAN :
          /\ vop' = [NoVecOp EXCEPT !.name = "push", !.elem = elem]
          /\ vec' = [dense |-> Vec_push(vec.dense, elem),
                     bits |-> Bits_push(vec.bits, elem),
                     unit |-> Unit_push(vec.unit, "unit")]
    /\ vprev' = vec
    /\ vret' = NoRet
    /\ vres' = AllOk
    /\ UNCHANGED <<debug, tvars, ivars, bvars>>

VecResize ==
    /\ Building
    /\ \E new_len \in ResizeLens, elem \in BOOLEAN :
          /\ vop' = [NoVecOp EXCEPT !.name = "resize", !.len = new_len,
                                    !.elem = elem]
          /\ vec' = [dense |-> Vec_resize(vec.dense, new_len, elem),
                     bits |-> Bits_resize(vec.bits, new_len, elem),
                     unit |-> Unit_resize(vec.unit, new_len, "unit")]
    /\ vprev' = vec
    /\ vret' = NoRet
    /\ vres' = AllOk
    /\ UNCHANGED <<debug, tvars, ivars, bvars>>

VecPop ==
    /\ Built
    /\ vop' = [NoVecOp EXCEPT !.name = "pop"]
    /\ vec' = [dense |-> Vec_pop(vec.dense).vec,
               bits |-> Bits_pop(vec.bits).vec,
               unit |-> Unit_pop(vec.unit).vec]
    /\ vret' = [dense |-> Vec_pop(vec.dense).ret,
                bits |-> Bits_pop(vec.bits).ret,
                unit |-> Unit_pop(vec.unit).ret]
    /\ vprev' = vec
    /\ vres' = AllOk
    /\ UNCHANGED <<debug, tvars, ivars, bvars>>

VecGet ==
    /\ Built
    /\ \E idx \in 0..(Vec_len(vec.dense) + 1) :
          /\ vop' = [NoVecOp EXCEPT !.name = "get", !.index = idx]
          /\ vres' = [dense |-> Outcome(Vec_get_ok(vec.dense, idx)),
                      bits |-> Outcome(Bits_get_ok(vec.bits, idx)),
                      unit |-> Outcome(Unit_get_ok(vec.unit, idx))]
          /\ vret' = [dense |-> IF Vec_get_ok(vec.dense, idx)
                                THEN <<Vec_get(vec.dense, idx)>> ELSE <<>>,
                      bits |-> IF Bits_get_ok(vec.bits, idx)
                               THEN <<Bits_get(vec.bits, idx)>> ELSE <<>>,
                      unit |-> IF Unit_get_ok(vec.unit, idx)
                               THEN <<Unit_get(vec.unit, idx)>> ELSE <<>>]
    /\ vprev' = vec
    /\ UNCHANGED <<vec, debug, tvars, ivars, bvars>>

VecGetUnchecked ==
    /\ Built
    /\ \E idx \in 0..(Vec_len(vec.dense) - 1) :
          /\ vop' = [NoVecOp EXCEPT !.name = "get_unchecked", !.index = idx]
          /\ vret' = [dense |-> <<Vec_get_unchecked(vec.dense, idx)>>,
                      bits |-> <<Bits_get_unchecked(vec.bits, idx)>>,
                      unit |-> <<Unit_get_unchecked(vec.unit, idx)>>]
    /\ vprev' = vec
    /\ vres' = AllOk
    /\ UNCHANGED <<vec, debug, tvars, ivars, bvars>>

VecSet ==
    /\ Built
    /\ \E idx \in 0..(Vec_len(vec.dense) + 1), elem \in BOOLEAN :
          /\ vop' = [NoVecOp EXCEPT !.name = "set", !.index = idx,
                                    !.elem = elem]
          /\ vres' = [dense |-> Outcome(Vec_set_ok(vec.dense, idx)),
                      bits |-> Outcome(Bits_set_ok(vec.bits, idx)),
                      unit |-> Outcome(Unit_set_ok(vec.unit, idx))]
          /\ vec' = [dense |-> IF Vec_set_ok(vec.dense, idx)
                               THEN Vec_set(vec.dense, idx, elem)
                               ELSE vec.dense,
                     bits |-> IF Bits_set_ok(vec.bits, idx)
                              THEN Bits_set(vec.bits, idx, elem)
                              ELSE vec.bits,
                     unit |-> IF Unit_set_ok(vec.unit, idx)
                              THEN Unit_set(vec.unit, idx, "unit")
                              ELSE vec.unit]
    /\ vprev' = vec
    /\ vret' = NoRet
    /\ UNCHANGED <<debug, tvars, ivars, bvars>>

VecSetUnchecked ==
    /\ Built
    /\ \E idx \in 0..(Vec_len(vec.dense) - 1), elem \in BOOLEAN :
          /\ vop' = [NoVecOp EXCEPT !.name = "set_unchecked", !.index = idx,
                                    !.elem = elem]
          /\ vec' = [dense |-> Vec_set_unchecked(vec.dense, idx, elem),
                     bits |-> Bits_set_unchecked(vec.bits, idx, elem),
                     unit |-> Unit_set_unchecked(vec.unit, idx, "unit")]
    /\ vprev' = vec
    /\ vret' = NoRet
    /\ vres' = AllOk
    /\ UNCHANGED <<debug, tvars, ivars, bvars>>

VecSplit ==
    /\ Built
    /\ \E len \in SplitLens :
          /\ len # 0 => Vec_len(vec.dense) \div len <= MaxParts
          /\ vop' = [NoVecOp EXCEPT !.name = "split", !.len = len]
          /\ vres' = [dense |-> Outcome(split_ok(Vec_len(vec.dense), len)),
                      bits |-> Outcome(split_ok(Bits_len(vec.bits), len)),
                      unit |-> Outcome(split_ok(Unit_len(vec.unit), len))]
          /\ vret' = [dense |-> IF split_ok(Vec_len(vec.dense), len)
                                THEN Vec_split(vec.dense, len) ELSE <<>>,
                      bits |-> IF split_ok(Bits_len(vec.bits), len)
                               THEN Bits_split(vec.bits, len) ELSE <<>>,
                      unit |-> IF split_ok(Unit_len(vec.unit), len)
                               THEN Unit_split(vec.unit, len) ELSE <<>>]
    /\ vprev' = vec
    /\ UNCHANGED <<vec, debug, tvars, ivars, bvars>>

\* concat of the vectors the split has returned
VecConcat ==
    /\ vop.name = "split"
    /\ vres = AllOk
    /\ vop' = [vop EXCEPT !.name = "concat"]
    /\ vec' = [dense |-> Vec_concat(vret.dense),
               bits |-> Bits_concat(vret.bits),
               unit |-> Unit_concat(vret.unit)]
    /\ vprev' = vec
    /\ UNCHANGED <<vret, vres, debug, tvars, ivars, bvars>>

NextVec ==
    \/ VecPush
    \/ VecResize
    \/ VecPop
    \/ VecGet
    \/ VecGetUnchecked
    \/ VecSet
    \/ VecSetUnchecked
    \/ VecSplit
    \/ VecConcat

SpecVec == VecInit /\ [][NextVec]_vars

\* C13: resize(m, fill) of vectors built by pushing n elements leaves
\* vectors of length m whose elements below min(n, m) are unchanged and
\* whose new elements are the fill value, and the dense and the bit-packed
\* vector agree on the length and on every element.
C13_Resize ==
    vop.name = "resize" =>
        /\ vres = AllOk
        /\ Vec_len(vec.dense) = vop.len
        /\ Bits_len(vec.bits) = vop.len
        /\ Unit_len(vec.unit) = vop.len
        /\ \A i \in 0..(vop.len - 1) :
              /\ Vec_get(vec.dense, i) =
                    (IF i < Vec_len(vprev.dense) THEN Vec_get(vprev.dense, i)
                     ELSE vop.elem)
              /\ Bits_get(vec.bits, i) =
                    (IF i < Bits_len(vprev.bits) THEN Bits_get(vprev.bits, i)
                     ELSE vop.elem)
              /\ Bits_get(vec.bits, i) = Vec_get(vec.dense, i)

\* three pushed elements resized with true to the length 33, which takes a
\* second word of the bit-packed vector, and resized to the length 2
C13_Witness ==
    /\ vop.name = "resize" /\ vres = AllOk
    /\ vprev.dense = <<TRUE, FALSE, FALSE>>
    /\ vop.len = WordBits + 1 /\ vop.elem
    /\ Len(vec.bits.storage) = 2
    /\ vec.bits.storage[2] = {0}

\* C14: for every index below the length get_unchecked returns what get
\* returns, and set_unchecked leaves the vector as set leaves it: the
\* element at the index is the new value and the length and every other
\* element are unchanged.
C14_Unchecked ==
    /\ vop.name = "get_unchecked" =>
          /\ vres = AllOk
          /\ vret.dense = <<Vec_get(vec.dense, vop.index)>>
          /\ vret.bits = <<Bits_get(vec.bits, vop.index)>>
          /\ vret.unit = <<Unit_get(vec.unit, vop.index)>>
          /\ vret.bits = vret.dense
    /\ vop.name = "set_unchecked" =>
          /\ vres = AllOk
          /\ vec.dense = Vec_set(vprev.dense, vop.index, vop.elem)
          /\ vec.bits = Bits_set(vprev.bits, vop.index, vop.elem)
          /\ vec.unit = Unit_set(vprev.unit, vop.index, "unit")
          /\ Bits_len(vec.bits) = Bits_len(vprev.bits)
          /\ Vec_len(vec.dense) = Vec_len(vprev.dense)
          /\ \A i \in 0..(Bits_len(vec.bits) - 1) :
                /\ Bits_get(vec.bits, i) =
                      (IF i = vop.index THEN vop.elem
                       ELSE Bits_get(vprev.bits, i))
                /\ Vec_get(vec.dense, i) = Bits_get(vec.bits, i)

\* set_unchecked of the only bit of the second word of a bit-packed vector
C14_Witness ==
    /\ vop.name = "set_unchecked" /\ vres = AllOk
    /\ vop.index = WordBits /\ vop.elem
    /\ Bits_len(vprev.bits) = WordBits + 1
    /\ vprev.bits.storage[2] = {}
    /\ vec.bits.storage[2] = {0}
    /\ vec.bits.storage[1] = vprev.bits.storage[1]

\* C15: split(v, k) with k > 0 returns len(v) / k vectors of length k, and
\* their concat is the vector of the first k * (len(v) / k) elements of v
\* in their order; split of an empty vector returns no vector.
C15_SplitConcat ==
    /\ (vop.name = "split" /\ vop.len > 0) =>
          /\ vres = AllOk
          /\ Len(vret.dense) = Vec_len(vec.dense) \div vop.len
          /\ Len(vret.bits) = Bits_len(vec.bits) \div vop.len
          /\ Len(vret.unit) = Unit_len(vec.unit) \div vop.len
          /\ \A k \in 1..Len(vret.dense) :
                /\ Vec_len(vret.dense[k]) = vop.len
                /\ Bits_len(vret.bits[k]) = vop.len
                /\ Unit_len(vret.unit[k]) = vop.len
    /\ (vop.name = "split" /\ Vec_len(vec.dense) = 0) =>
          /\ vres = AllOk
          /\ vret = NoRet
    /\ (vop.name = "concat" /\ vop.len > 0) =>
          LET n == vop.len * (Vec_len(vprev.dense) \div vop.len)
          IN  /\ vec.dense = SubSeq(vprev.dense, 1, n)
              /\ Bits_iter(vec.bits) = SubSeq(Bits_iter(vprev.bits), 1, n)
              /\ vec.bits = Bits_resize(vprev.bits, n, FALSE)
              /\ vec.unit = n

\* a vector of three elements split into one vector of two and put
\* together again, without its last element
C15_Witness ==
    /\ vop.name = "concat" /\ vop.len = 2
    /\ vprev.dense = <<TRUE, FALSE, TRUE>>
    /\ vec.dense = <<TRUE, FALSE>>
    /\ vret.unit = <<2>>

\* C16 as claimed: get and set with an index that is not below the length
\* panic for the dense, the bit-packed and the unit vector, return nothing
\* and leave the vector unchanged.
C16_OutOfBounds ==
    (vop.name \in {"get", "set"} /\ vop.index >= Vec_len(vprev.dense)) =>
        /\ vres = [dense |-> "panic", bits |-> "panic", unit |-> "panic"]
        /\ vret = NoRet
        /\ vec = vprev

\* C17 as claimed: pop of an empty vector panics for each of the three
\* vectors.
C17_PopPanics ==
    (vop.name = "pop" /\ Vec_len(vprev.dense) = 0) =>
        vres = [dense |-> "panic", bits |-> "panic", unit |-> "panic"]

\* C17 as the code has it: pop of an empty vector returns None for each of
\* the three vectors and leaves them empty.
C17_PopNone ==
    (vop.name = "pop" /\ Vec_len(vprev.dense) = 0) =>
        /\ vres = AllOk
        /\ vret = NoRet
        /\ vec = vprev
        /\ Vec_len(vec.dense) = 0 /\ Bits_len(vec.bits) = 0
        /\ Unit_len(vec.unit) = 0

\* pop of the three empty vectors, which returns None
C17_Witness ==
    /\ vop.name = "pop" /\ vres = AllOk
    /\ vprev = [dense |-> <<>>, bits |-> BitVec_new, unit |-> 0]
    /\ vret = NoRet

(***************************************************************************)
(* The calls program: one call of a two-operand operation of the binary    *)
(* arithmetic layer or of the tensor layer, of polymer, of Shape::index or *)
(* of Shape::strides, with arguments that satisfy the preconditions of the *)
(* operation or do not.  prev is the first operand of the call, op holds   *)
(* the other arguments and t is the result.                                *)
(***************************************************************************)
\* the vectors of bits the operations of the arithmetic layer are given
BitVectors == SeqsUpTo(BOOLEAN, MaxWidth)

\* the tensors the operations of the tensor layer are given
ConstantTensors ==
    {constant("Boolean", shape, elem) : shape \in Shapes, elem \in BOOLEAN}

CallsInit ==
    /\ TensorIdle
    /\ IterIdle
    /\ BinIdle
    /\ VecIdle

\* the result of a call on the first operand elem1: a tensor, or a panic
CallReturn(elem1, ok, tensor) ==
    /\ prev' = elem1
    /\ IF ok THEN t' = tensor /\ res' = "ok" ELSE t' = elem1 /\ res' = "panic"

CallBitOr ==
    /\ bop.name = "none" /\ op.name = "none"
    /\ \E a \in BitVectors, b \in BitVectors :
          /\ bop' = [NoBin EXCEPT !.name = "bit_or", !.a = a, !.b = b]
          /\ BinReturn(same_len(a, b), bit_or(a, b))
    /\ UNCHANGED <<checks, tvars, ivars, vvars>>

CallBitAnd ==
    /\ bop.name = "none" /\ op.name = "none"
    /\ \E a \in BitVectors, b \in BitVectors :
          /\ bop' = [NoBin EXCEPT !.name = "bit_and", !.a = a, !.b = b]
          /\ BinReturn(same_len(a, b), bit_and(a, b))
    /\ UNCHANGED <<checks, tvars, ivars, vvars>>

CallBitXor ==
    /\ bop.name = "none" /\ op.name = "none"
    /\ \E a \in BitVectors, b \in BitVectors :
          /\ bop' = [NoBin EXCEPT !.name = "bit_xor", !.a = a, !.b = b]
          /\ BinReturn(same_len(a, b), bit_xor(a, b))
    /\ UNCHANGED <<checks, tvars, ivars, vvars>>

CallBitEqu ==
    /\ bop.name = "none" /\ op.name = "none"
    /\ \E a \in BitVectors, b \in BitVectors :
          /\ bop' = [NoBin EXCEPT !.name = "bit_equ", !.a = a, !.b = b]
          /\ BinReturn(same_len(a, b), bit_equ(a, b))
    /\ UNCHANGED <<checks, tvars, ivars, vvars>>

CallBitImp ==
    /\ bop.name = "none" /\ op.name = "none"
    /\ \E a \in BitVectors, b \in BitVectors :
          /\ bop' = [NoBin EXCEPT !.name = "bit_imp", !.a = a, !.b = b]
          /\ BinReturn(same_len(a, b), bit_imp(a, b))
    /\ UNCHANGED <<checks, tvars, ivars, vvars>>

CallNumAdd ==
    /\ bop.name = "none" /\ op.name = "none"
    /\ \E a \in BitVectors, b \in BitVectors :
          /\ bop' = [NoBin EXCEPT !.name = "num_add", !.a = a, !.b = b]
          /\ BinReturn(same_len(a, b), num_add(a, b))
    /\ UNCHANGED <<checks, tvars, ivars, vvars>>

CallNumSub ==
    /\ bop.name = "none" /\ op.name = "none"
    /\ \E a \in BitVectors, b \in BitVectors :
          /\ bop' = [NoBin EXCEPT !.name = "num_sub", !.a = a, !.b = b]
          /\ BinReturn(same_len(a, b), num_sub(a, b))
    /\ UNCHANGED <<checks, tvars, ivars, vvars>>

CallNumEq ==
    /\ bop.name = "none" /\ op.name = "none"
    /\ \E a \in BitVectors, b \in BitVectors :
          /\ bop' = [NoBin EXCEPT !.name = "num_eq", !.a = a, !.b = b]
          /\ BinReturn(same_len(a, b), num_eq(a, b))
    /\ UNCHANGED <<checks, tvars, ivars, vvars>>

\* num_ne calls num_eq, which makes the assertion
CallNumNe ==
    /\ bop.name = "none" /\ op.name = "none"
    /\ \E a \in BitVectors, b \in BitVectors :
          /\ bop' = [NoBin EXCEPT !.name = "num_ne", !.a = a, !.b = b]
          /\ BinReturn(same_len(a, b), num_ne(a, b))
    /\ UNCHANGED <<checks, tvars, ivars, vvars>>

CallNumLe ==
    /\ bop.name = "none" /\ op.name = "none"
    /\ \E a \in BitVectors, b \in BitVectors :
          /\ bop' = [NoBin EXCEPT !.name = "num_le", !.a = a, !.b = b]
          /\ BinReturn(same_len(a, b), num_le(a, b))
    /\ UNCHANGED <<checks, tvars, ivars, vvars>>

\* num_lt calls num_le with the operands exchanged
CallNumLt ==
    /\ bop.name = "none" /\ op.name = "none"
    /\ \E a \in BitVectors, b \in BitVectors :
          /\ bop' = [NoBin EXCEPT !.name = "num_lt", !.a = a, !.b = b]
          /\ BinReturn(same_len(b, a), num_lt(a, b))
    /\ UNCHANGED <<checks, tvars, ivars, vvars>>

CallTensorOr ==
    /\ bop.name = "none" /\ op.name = "none"
    /\ \E elem1 \in ConstantTensors, elem2 \in ConstantTensors :
          /\ op' = [NoOp EXCEPT !.name = "tensor_or", !.shape = elem2.shape,
                                !.other = elem2.elems]
          /\ CallReturn(elem1, tensor_zip_ok(elem1, elem2),
                        tensor_or(elem1, elem2))
    /\ UNCHANGED <<nvars, clauses, model, value, ivars, bvars, vvars>>

CallTensorAnd ==
    /\ bop.name = "none" /\ op.name = "none"
    /\ \E elem1 \in ConstantTensors, elem2 \in ConstantTensors :
          /\ op' = [NoOp EXCEPT !.name = "tensor_and", !.shape = elem2.shape,
                                !.other = elem2.elems]
          /\ CallReturn(elem1, tensor_zip_ok(elem1, elem2),
                        tensor_and(elem1, elem2))
    /\ UNCHANGED <<nvars, clauses, model, value, ivars, bvars, vvars>>

CallTensorXor ==
    /\ bop.name = "none" /\ op.name = "none"
    /\ \E elem1 \in ConstantTensors, elem2 \in ConstantTensors :
          /\ op' = [NoOp EXCEPT !.name = "tensor_xor", !.shape = elem2.shape,
                                !.other = elem2.elems]
          /\ CallReturn(elem1, tensor_zip_ok(elem1, elem2),
                        tensor_xor(elem1, elem2))
    /\ UNCHANGED <<nvars, clauses, model, value, ivars, bvars, vvars>>

CallTensorEqu ==
    /\ bop.name = "none" /\ op.name = "none"
    /\ \E elem1 \in ConstantTensors, elem2 \in ConstantTensors :
          /\ op' = [NoOp EXCEPT !.name = "tensor_equ", !.shape = elem2.shape,
                                !.other = elem2.elems]
          /\ CallReturn(elem1, tensor_zip_ok(elem1, elem2),
                        tensor_equ(elem1, elem2))
    /\ UNCHANGED <<nvars, clauses, model, value, ivars, bvars, vvars>>

CallTensorImp ==
    /\ bop.name = "none" /\ op.name = "none"
    /\ \E elem1 \in ConstantTensors, elem2 \in ConstantTensors :
          /\ op' = [NoOp EXCEPT !.name = "tensor_imp", !.shape = elem2.shape,
                                !.other = elem2.elems]
          /\ CallReturn(elem1, tensor_zip_ok(elem1, elem2),
                        tensor_imp(elem1, elem2))
    /\ UNCHANGED <<nvars, clauses, model, value, ivars, bvars, vvars>>

\* polymer with a mapping of any length up to one more than the tensor has
\* dimensions, whose entries are positions of the new shape or the first
\* position behind it
CallPolymer ==
    /\ bop.name = "none" /\ op.name = "none"
    /\ \E tensor \in ConstantTensors, shape \in Shapes :
       \E mapping \in SeqsUpTo(1..(Len(shape) + 1), Len(tensor.shape) + 1) :
          /\ op' = [NoOp EXCEPT !.name = "polymer", !.shape = shape,
                                !.mapping = mapping]
          /\ CallReturn(tensor, polymer_ok(tensor, shape, mapping),
                        polymer(tensor, shape, mapping))
    /\ UNCHANGED <<nvars, clauses, model, value, ivars, bvars, vvars>>

\* Shape::index with any number of coordinates; op.count is the index
CallIndex ==
    /\ bop.name = "none" /\ op.name = "none"
    /\ \E dims \in Shapes, coords \in SeqsUpTo(0..MaxDim, MaxRank + 1) :
          /\ op' = [NoOp EXCEPT !.name = "index", !.shape = dims,
                                !.mapping = coords,
                                !.count = index(dims, coords)]
          /\ res' = Outcome(index(dims, coords) # NoIndex)
    /\ UNCHANGED <<t, prev, nvars, clauses, model, value, ivars, bvars, vvars>>

\* Shape::strides; op.other is the vector of strides
CallStrides ==
    /\ bop.name = "none" /\ op.name = "none"
    /\ \E dims \in Shapes :
          op' = [NoOp EXCEPT !.name = "strides", !.shape = dims,
                             !.other = strides(dims)]
    /\ UNCHANGED <<t, prev, res, nvars, clauses, model, value, ivars, bvars, vvars>>

NextCalls ==
    \/ CallBitOr
    \/ CallBitAnd
    \/ CallBitXor
    \/ CallBitEqu
    \/ CallBitImp
    \/ CallNumAdd
    \/ CallNumSub
    \/ CallNumEq
    \/ CallNumNe
    \/ CallNumLe
    \/ CallNumLt
    \/ CallTensorOr
    \/ CallTensorAnd
    \/ CallTensorXor
    \/ CallTensorEqu
    \/ CallTensorImp
    \/ CallPolymer
    \/ CallIndex
    \/ CallStrides

SpecCalls == CallsInit /\ [][NextCalls]_vars

\* the two-operand operations of the binary arithmetic layer
BinaryOps ==
    {"bit_or", "bit_and", "bit_xor", "bit_equ", "bit_imp", "num_add",
     "num_sub", "num_eq", "num_ne", "num_le", "num_lt"}

\* the two-operand operations of the tensor layer
TensorOps ==
    {"tensor_or", "tensor_and", "tensor_xor", "tensor_equ", "tensor_imp"}

\* C18: a two-operand operation of the binary arithmetic layer panics and
\* returns nothing when its operands differ in length, and one of the tensor
\* layer when its operands differ in shape, be their sizes equal or not.
C18_Mismatch ==
    /\ (bop.name \in BinaryOps /\ Len(bop.a) # Len(bop.b)) =>
          /\ bres = "panic"
          /\ out = <<>>
    /\ (op.name \in TensorOps /\ prev.shape # op.shape) =>
          /\ res = "panic"
          /\ t = prev

\* tensor_xor of tensors of the shapes [2,3] and [3,2], which have one size
C18_Witness ==
    /\ op.name = "tensor_xor" /\ res = "panic"
    /\ prev.shape = <<2, 3>> /\ op.shape = <<3, 2>>
    /\ Len(prev.elems) = Len(op.other)

\* C19: polymer panics and returns no tensor when the mapping has not as
\* many entries as the tensor has dimensions, or an entry is not a position
\* of the new shape, or a dimension of the tensor differs from the dimension
\* of the new shape its entry names.
C19_PolymerPanics ==
    (/\ op.name = "polymer"
     /\ \/ Len(op.mapping) # Len(prev.shape)
        \/ \E i \in 1..Len(op.mapping) : op.mapping[i] > Len(op.shape)
        \/ \E i \in 1..Len(op.mapping) :
              /\ i <= Len(prev.shape)
              /\ op.mapping[i] <= Len(op.shape)
              /\ prev.shape[i] # op.shape[op.mapping[i]])
    => (res = "panic" /\ t = prev)

\* polymer of a tensor of shape [3] into the shape [2], whose two cells the
\* tensor could provide
C19_Witness ==
    /\ op.name = "polymer" /\ res = "panic"
    /\ prev.shape = <<3>> /\ op.shape = <<2>> /\ op.mapping = <<1>>

\* the sum of coords[i] * stride[i]
RECURSIVE Dot(_, _)
Dot(coords, strd) ==
    IF coords = <<>> THEN 0
    ELSE Head(coords) * Head(strd) + Dot(Tail(coords), Tail(strd))

\* C20: strides() returns 1 for the first dimension and the product of the
\* dimensions before it for every other one; index(coords) of a tuple that
\* has a coordinate below the dimension for every dimension is the sum of
\* coords[i] * stride[i], is below size() and is the index of no other such
\* tuple, and every number below size() is the index of such a tuple;
\* index panics for a tuple of another length and for one with a coordinate
\* that is not below its dimension.
C20_StridesIndex ==
    /\ op.name = "strides" =>
          /\ Len(op.other) = Len(op.shape)
          /\ \A i \in 1..Len(op.shape) :
                op.other[i] = size(SubSeq(op.shape, 1, i - 1))
          /\ op.shape # <<>> => op.other[1] = 1
    /\ op.name = "index" =>
          IF op.mapping \in Coords(op.shape)
          THEN /\ res = "ok"
               /\ op.count = Dot(op.mapping, strides(op.shape))
               /\ op.count >= 0 /\ op.count < size(op.shape)
               /\ \A c \in Coords(op.shape) :
                     index(op.shape, c) = op.count => c = op.mapping
               /\ {index(op.shape, c) : c \in Coords(op.shape)}
                     = 0..(size(op.shape) - 1)
          ELSE res = "panic"

\* the index of the last cell of a tensor of shape [2,3]
C20_Witness ==
    /\ op.name = "index" /\ res = "ok"
    /\ op.shape = <<2, 3>> /\ op.mapping = <<1, 2>>
    /\ op.count = 5

(***************************************************************************)
(* The lockstep program: a dense, a bit-packed and a unit vector take the  *)
(* same calls of push, pop, resize, truncate, clear and append, in any     *)
(* order, until one of the calls panics.                                   *)
(***************************************************************************)
\* the lengths the vectors of the lockstep program have: short ones and the
\* ones around the number of bits of a word
LockLens == (0..(MaxLen + 1)) \cup ((WordBits - 1)..(WordBits + 1))

\* the elements of the vector that append is called with
OtherElems == SeqsUpTo(BOOLEAN, MaxLen - 1)

\* the three vectors collected from the same elements
Others(elems) ==
    [dense |-> Vec_extend(Vec_new, elems),
     bits |-> Bits_extend(BitVec_new, elems),
     unit |-> Unit_extend(Unit_new, [k \in 1..Len(elems) |-> "unit"])]

LockInit == VecInit

\* no call has panicked
Running == vres = AllOk

LockPush ==
    /\ Running
    /\ Vec_len(vec.dense) + 1 \in LockLens
    /\ \E elem \in BOOLEAN :
          /\ vop' = [NoVecOp EXCEPT !.name = "push", !.elem = elem]
          /\ vec' = [dense |-> Vec_push(vec.dense, elem),
                     bits |-> Bits_push(vec.bits, elem),
                     unit |-> Unit_push(vec.unit, "unit")]
    /\ vprev' = vec
    /\ vret' = NoRet
    /\ vres' = AllOk
    /\ UNCHANGED <<debug, tvars, ivars, bvars>>

LockPop ==
    /\ Running
    /\ Vec_len(vec.dense) = 0 \/ Vec_len(vec.dense) - 1 \in LockLens
    /\ vop' = [NoVecOp EXCEPT !.name = "pop"]
    /\ vec' = [dense |-> Vec_pop(vec.dense).vec,
               bits |-> Bits_pop(vec.bits).vec,
               unit |-> Unit_pop(vec.unit).vec]
    /\ vret' = [dense |-> Vec_pop(vec.dense).ret,
                bits |-> Bits_pop(vec.bits).ret,
                unit |-> Unit_pop(vec.unit).ret]
    /\ vprev' = vec
    /\ vres' = AllOk
    /\ UNCHANGED <<debug, tvars, ivars, bvars>>

LockResize ==
    /\ Running
    /\ \E new_len \in LockLens, elem \in BOOLEAN :
          /\ vop' = [NoVecOp EXCEPT !.name = "resize", !.len = new_len,
                                    !.elem = elem]
          /\ vec' = [dense |-> Vec_resize(vec.dense, new_len, elem),
                     bits |-> Bits_resize(vec.bits, new_len, elem),
                     unit |-> Unit_resize(vec.unit, new_len, "unit")]
    /\ vprev' = vec
    /\ vret' = NoRet
    /\ vres' = AllOk
    /\ UNCHANGED <<debug, tvars, ivars, bvars>>

LockTruncate ==
    /\ Running
    /\ \E new_len \in LockLens :
          /\ vop' = [NoVecOp EXCEPT !.name = "truncate", !.len = new_len]
          /\ vres' = [dense |-> Outcome(Vec_truncate_ok(vec.dense, new_len)),
                      bits |-> Outcome(Bits_truncate_ok(vec.bits, new_len)),
                      unit |-> Outcome(Unit_truncate_ok(vec.unit, new_len))]
          /\ vec' = [dense |-> IF Vec_truncate_ok(vec.dense, new_len)
                               THEN Vec_truncate(vec.dense, new_len)
                               ELSE vec.dense,
                     bits |-> IF Bits_truncate_ok(vec.bits, new_len)
                              THEN Bits_truncate(vec.bits, new_len)
                              ELSE vec.bits,
                     unit |-> IF Unit_truncate_ok(vec.unit, new_len)
                              THEN Unit_truncate(vec.unit, new_len)
                              ELSE vec.unit]
    /\ vprev' = vec
    /\ vret' = NoRet
    /\ UNCHANGED <<debug, tvars, ivars, bvars>>

LockClear ==
    /\ Running
    /\ vop' = [NoVecOp EXCEPT !.name = "clear"]
    /\ vec' = [dense |-> Vec_clear(vec.dense),
               bits |-> Bits_clear(vec.bits),
               unit |-> Unit_clear(vec.unit)]
    /\ vprev' = vec
    /\ vret' = NoRet
    /\ vres' = AllOk
    /\ UNCHANGED <<debug, tvars, ivars, bvars>>

\* append of three vectors collected from the same elements; what is left
\* of them is kept as what the call returned
LockAppend ==
    /\ Running
    /\ \E elems \in OtherElems :
          /\ Vec_len(vec.dense) + Len(elems) \in LockLens
          /\ vop' = [NoVecOp EXCEPT !.name = "append", !.elems = elems]
          /\ vec' = [dense |-> Vec_append(vec.dense, Others(elems).dense).vec,
                     bits |-> Bits_append(vec.bits, Others(elems).bits).vec,
                     unit |-> Unit_append(vec.unit, Others(elems).unit).vec]
          /\ vret' =
                [dense |-> Vec_append(vec.dense, Others(elems).dense).other,
                 bits |-> Bits_append(vec.bits, Others(elems).bits).other,
                 unit |-> Unit_append(vec.unit, Others(elems).unit).other]
    /\ vprev' = vec
    /\ vres' = AllOk
    /\ UNCHANGED <<debug, tvars, ivars, bvars>>

NextLock ==
    \/ LockPush
    \/ LockPop
    \/ LockResize
    \/ LockTruncate
    \/ LockClear
    \/ LockAppend

SpecLock == LockInit /\ [][NextLock]_vars

\* C21: after every step of the lockstep program the three vectors have the
\* same length, a call of pop has returned None for all of them or for none
\* of them, and the dense and the bit-packed vector hold the same element
\* at every index.
C21_Lockstep ==
    /\ Vec_len(vec.dense) = Bits_len(vec.bits)
    /\ Vec_len(vec.dense) = Unit_len(vec.unit)
    /\ vop.name = "pop" =>
          /\ (vret.dense = <<>>) <=> (vret.bits = <<>>)
          /\ (vret.dense = <<>>) <=> (vret.unit = <<>>)
          /\ vret.dense # <<>> => vret.dense = vret.bits
    /\ \A i \in 0..(Vec_len(vec.dense) - 1) :
          Vec_get(vec.dense, i) = Bits_get(vec.bits, i)

\* an append has moved a bit that is set across the end of the first word
\* of a bit-packed vector whose last word was not full
C21_Witness ==
    /\ vop.name = "append"
    /\ Bits_len(vprev.bits) = WordBits - 1
    /\ Len(vop.elems) = 2
    /\ vop.elems[2]
    /\ ~vop.elems[1]
    /\ Bits_len(vec.bits) = WordBits + 1
    /\ Bits_get(vec.bits, WordBits)
    /\ ~Bits_get(vec.bits, WordBits - 1)
    /\ vret = [dense |-> Vec_new, bits |-> BitVec_new, unit |-> Unit_new]

(***************************************************************************)
(* The clause program: the solver allocates variables, may be given a unit *)
(* clause, and then tensor_add_clause is called once with a list of        *)
(* tensors of literals, of one shape or of several.                        *)
(***************************************************************************)
\* the most tensors of one call
MaxTensors == MaxVars

\* the shapes of the tensors of the clause program
ClauseShapes == {dims \in SeqsUpTo(0..MaxVars, 1) : size(dims) <= MaxVars}

\* the tensors over the literals of the variables 1..n
ClauseTensors(n) ==
    {Tensor_new("Solver", shape, elems) :
        shape \in ClauseShapes, elems \in SeqsUpTo(1..n, MaxVars)}

SatInit == CallsInit

SatAddVariable ==
    /\ op.name = "none"
    /\ clauses = <<>>
    /\ nvars < MaxVars
    /\ nvars' = bool_add_variable(nvars)
    /\ UNCHANGED <<t, prev, op, res, clauses, model, value, ivars, bvars,
                   vvars>>

\* bool_add_clause with the clause of one literal
SatAddUnit ==
    /\ op.name = "none"
    /\ clauses = <<>>
    /\ \E lit \in 1..nvars : clauses' = bool_add_clause(clauses, <<lit>>)
    /\ UNCHANGED <<t, prev, op, res, nvars, model, value, ivars, bvars,
                   vvars>>

SatAddClause ==
    /\ op.name = "none"
    /\ \E tensors \in SeqsUpTo({e \in ClauseTensors(nvars) :
                                  Tensor_new_ok(e.shape, e.elems)},
                               MaxTensors) :
          /\ op' = [NoOp EXCEPT !.name = "tensor_add_clause",
                                !.other = tensors]
          /\ IF tensor_add_clause_ok(tensors)
             THEN /\ clauses' = tensor_add_clause(clauses, tensors)
                  /\ res' = "ok"
             ELSE /\ clauses' = clauses
                  /\ res' = "panic"
    /\ UNCHANGED <<t, prev, nvars, model, value, ivars, bvars, vvars>>

NextSat ==
    \/ SatAddVariable
    \/ SatAddUnit
    \/ SatAddClause

SpecSat == SatInit /\ [][NextSat]_vars

\* C22: a call of tensor_add_clause with no tensors gives the solver the
\* empty clause; with k >= 1 tensors of one shape it gives the solver
\* size(shape) clauses, none when the size is 0, the i-th being the k
\* literals at flat position i of the tensors, in the order of the tensors;
\* with tensors of different shapes it panics and gives the solver nothing.
C22_AddClause ==
    [][op'.name = "tensor_add_clause" /\ op.name = "none" =>
          LET tensors == op'.other
              k == Len(tensors)
              n == Len(clauses)
          IN  IF k = 0
              THEN res' = "ok" /\ clauses' = clauses \o << <<>> >>
              ELSE IF \A j \in 1..k : tensors[j].shape = tensors[1].shape
              THEN /\ res' = "ok"
                   /\ Len(clauses') = n + size(tensors[1].shape)
                   /\ SubSeq(clauses', 1, n) = clauses
                   /\ \A i \in 1..size(tensors[1].shape) :
                         clauses'[n + i] =
                            [j \in 1..k |-> tensors[j].elems[i]]
              ELSE res' = "panic" /\ clauses' = clauses]_vars

\* a solver that has a clause has been given two more, of different
\* literals, by a call with two tensors of one shape that differ
C22_Witness ==
    /\ op.name = "tensor_add_clause"
    /\ res = "ok"
    /\ Len(op.other) = 2
    /\ op.other[1].shape = op.other[2].shape
    /\ size(op.other[1].shape) = 2
    /\ op.other[1].elems # op.other[2].elems
    /\ op.other[1].elems[1] # op.other[1].elems[2]
    /\ Len(clauses) = 3
    /\ clauses[2] # clauses[3]

(***************************************************************************)
(* The default program: one call of a default method of BinaryAlg over the *)
(* algebra Boolean, with operands of one length: every short vector, and   *)
(* vectors of the lengths around the number of bits of i64.                *)
(***************************************************************************)
\* the long vectors: one first element and one value for the others
LongVectors ==
    {[k \in 1..len |-> IF k = 1 THEN lo ELSE hi] :
        len \in {I64Bits - 1, I64Bits, I64Bits + 1},
        lo \in BOOLEAN, hi \in BOOLEAN}

DefaultVectors == BitVectors \cup LongVectors

\* the pairs of operands of one length
DefaultPairs ==
    {p \in DefaultVectors \X DefaultVectors : Len(p[1]) = Len(p[2])}

DefaultInit == BinInit

DefaultBitAnd ==
    /\ bop.name = "none"
    /\ \E p \in DefaultPairs :
          /\ bop' = [NoBin EXCEPT !.name = "bit_and", !.len = Len(p[1]),
                                  !.a = p[1], !.b = p[2]]
          /\ BinReturn(same_len(p[1], bit_not(p[2])),
                       default_bit_and(p[1], p[2]))
    /\ UNCHANGED <<checks, tvars, ivars, vvars>>

DefaultBitEqu ==
    /\ bop.name = "none"
    /\ \E p \in DefaultPairs :
          /\ bop' = [NoBin EXCEPT !.name = "bit_equ", !.len = Len(p[1]),
                                  !.a = p[1], !.b = p[2]]
          /\ BinReturn(same_len(bit_not(p[1]), p[2]),
                       default_bit_equ(p[1], p[2]))
    /\ UNCHANGED <<checks, tvars, ivars, vvars>>

DefaultBitImp ==
    /\ bop.name = "none"
    /\ \E p \in DefaultPairs :
          /\ bop' = [NoBin EXCEPT !.name = "bit_imp", !.len = Len(p[1]),
                                  !.a = p[1], !.b = p[2]]
          /\ BinReturn(same_len(bit_not(p[1]), p[2]),
                       default_bit_imp(p[1], p[2]))
    /\ UNCHANGED <<checks, tvars, ivars, vvars>>

DefaultBitAny ==
    /\ bop.name = "none"
    /\ \E elem \in DefaultVectors :
          /\ bop' = [NoBin EXCEPT !.name = "bit_any", !.len = Len(elem),
                                  !.a = elem]
          /\ BinReturn(TRUE, default_bit_any(elem))
    /\ UNCHANGED <<checks, tvars, ivars, vvars>>

DefaultNumNeg ==
    /\ bop.name = "none"
    /\ \E elem \in DefaultVectors :
          /\ bop' = [NoBin EXCEPT !.name = "num_neg", !.len = Len(elem),
                                  !.a = elem]
          /\ BinReturn(default_num_neg_ok(elem), default_num_neg(elem))
    /\ UNCHANGED <<checks, tvars, ivars, vvars>>

DefaultNumSub ==
    /\ bop.name = "none"
    /\ \E p \in DefaultPairs :
          /\ bop' = [NoBin EXCEPT !.name = "num_sub", !.len = Len(p[1]),
                                  !.a = p[1], !.b = p[2]]
          /\ BinReturn(same_len(p[1], num_neg(p[2])),
                       default_num_sub(p[1], p[2]))
    /\ UNCHANGED <<checks, tvars, ivars, vvars>>

DefaultNumNe ==
    /\ bop.name = "none"
    /\ \E p \in DefaultPairs :
          /\ bop' = [NoBin EXCEPT !.name = "num_ne", !.len = Len(p[1]),
                                  !.a = p[1], !.b = p[2]]
          /\ BinReturn(same_len(p[1], p[2]), default_num_ne(p[1], p[2]))
    /\ UNCHANGED <<checks, tvars, ivars, vvars>>

DefaultNumLt ==
    /\ bop.name = "none"
    /\ \E p \in DefaultPairs :
          /\ bop' = [NoBin EXCEPT !.name = "num_lt", !.len = Len(p[1]),
                                  !.a = p[1], !.b = p[2]]
          /\ BinReturn(same_len(p[2], p[1]), default_num_lt(p[1], p[2]))
    /\ UNCHANGED <<checks, tvars, ivars, vvars>>

NextDefault ==
    \/ DefaultBitAnd
    \/ DefaultBitEqu
    \/ DefaultBitImp
    \/ DefaultBitAny
    \/ DefaultNumNeg
    \/ DefaultNumSub
    \/ DefaultNumNe
    \/ DefaultNumLt

SpecDefault == DefaultInit /\ [][NextDefault]_vars

\* what the implementation for a BoolAlg returns for the call bop
Override ==
    CASE bop.name = "bit_and" -> bit_and(bop.a, bop.b)
      [] bop.name = "bit_equ" -> bit_equ(bop.a, bop.b)
      [] bop.name = "bit_imp" -> bit_imp(bop.a, bop.b)
      [] bop.name = "bit_any" -> bit_any(bop.a)
      [] bop.name = "num_neg" -> num_neg(bop.a)
      [] bop.name = "num_sub" -> num_sub(bop.a, bop.b)
      [] bop.name = "num_ne" -> num_ne(bop.a, bop.b)
      [] bop.name = "num_lt" -> num_lt(bop.a, bop.b)

\* C23: over the algebra Boolean and for operands of one length, each
\* default method of BinaryAlg (bit_and, bit_equ, bit_imp, bit_any, num_neg,
\* num_sub, num_ne, num_lt) returns the vector that the overriding method
\* of the implementation for a BoolAlg returns.
C23_Defaults ==
    bop.name # "none" => bres = "ok" /\ out = Override

\* the same for the vectors of at most as many elements as an i64 has bits
C23_DefaultsI64 ==
    (bop.name # "none" /\ bop.len <= I64Bits) =>
        bres = "ok" /\ out = Override

\* the default num_neg of a vector of one element more than an i64 has
\* bits, in a build without overflow checks: the number 1 is lifted to a
\* vector whose last element is set too, and the last element of the sum
\* is not the one num_neg of the implementation returns
C23_Witness ==
    /\ bop.name = "num_neg"
    /\ bop.len = I64Bits + 1
    /\ ~checks
    /\ bres = "ok"
    /\ get(num_lift(bop.len, 1), I64Bits)
    /\ get(out, I64Bits) # get(num_neg(bop.a), I64Bits)

(***************************************************************************)
(* The polymer program: polymer is called with arguments that pass its     *)
(* assertions, and the StrideIter it has built is then stepped by next()   *)
(* until it returns None, as collect steps it.                             *)
(***************************************************************************)
PolyInit == CallsInit

\* the head of polymer: the assertions, StrideIter::new and add_stride
PolyStart ==
    /\ op.name = "none"
    /\ \E tensor \in ConstantTensors, shape \in Shapes :
       \E mapping \in [1..Len(tensor.shape) -> 1..Len(shape)] :
          /\ polymer_pre(tensor, shape, mapping)
          /\ op' = [NoOp EXCEPT !.name = "polymer", !.shape = shape,
                                !.mapping = mapping]
          /\ t' = tensor
          /\ prev' = tensor
          /\ iter' = polymer_iter(tensor, shape, mapping)
          /\ ishape' = shape
    /\ UNCHANGED <<res, nvars, clauses, model, value, calls, emitted, last,
                   bvars, vvars>>

\* one call of next() by collect, which stops at the first None
PolyNext ==
    /\ op.name = "polymer"
    /\ calls = 0 \/ last # None
    /\ iter' = next(iter).it
    /\ last' = next(iter).ret
    /\ calls' = calls + 1
    /\ emitted' = IF next(iter).ret = None THEN emitted ELSE emitted + 1
    /\ UNCHANGED <<ishape, tvars, bvars, vvars>>

NextPoly ==
    \/ PolyStart
    \/ PolyNext

SpecPoly == PolyInit /\ [][NextPoly]_vars

\* C24: in a call of next() on the StrideIter of a polymer whose assertions
\* hold, the running index never goes below 0, also when a counter is reset,
\* and the index returned is below the size of the source tensor, so it is
\* the index of an element of the source; when the iteration has finished,
\* the counters and the running index are 0.
C24_PolymerIndex ==
    [][calls' = calls + 1 =>
          /\ next(iter).low >= 0
          /\ iter'.index >= 0
          /\ last' # None =>
                /\ last' >= 0
                /\ last' < size(t.shape)
                /\ get_ok(t.elems, last')
          /\ iter'.done =>
                /\ iter'.index = 0
                /\ \A k \in 1..Len(iter'.entries) : iter'.entries[k][1] = 0]_vars

\* the iteration of the polymer that takes the diagonal of a tensor of
\* shape [2,2] has returned its last index, 3, after both counters were
\* reset, and is finished
C24_Witness ==
    /\ op.name = "polymer"
    /\ t.shape = <<2, 2>>
    /\ op.shape = <<2>>
    /\ op.mapping = <<1, 1>>
    /\ calls = 2
    /\ last = 3
    /\ iter.done
    /\ iter.index = 0

(***************************************************************************)
(* very_slow_set in the tensor program.                                    *)
(***************************************************************************)
\* the coordinates are those of a cell of the shape
ValidCoords(dims, coords) ==
    /\ Len(coords) = Len(dims)
    /\ \A i \in 1..Len(dims) : coords[i] < dims[i]

\* C25: very_slow_set(c, v) with the coordinates of a cell returns, leaves
\* the shape and the number of elements as they were, makes very_slow_get(c)
\* return v and leaves what very_slow_get returns for every other cell as it
\* was; with any other coordinates it panics and leaves the tensor as it
\* was.
C25_VerySlowSet ==
    op.name = "very_slow_set" =>
        IF ValidCoords(prev.shape, op.mapping)
        THEN /\ res = "ok"
             /\ t.shape = prev.shape
             /\ Len(t.elems) = Len(prev.elems)
             /\ very_slow_get(t, op.mapping) = op.elem
             /\ \A c \in Coords(prev.shape) :
                   c # op.mapping =>
                       very_slow_get(t, c) = very_slow_get(prev, c)
        ELSE res = "panic" /\ t = prev

\* a cell in the middle of a tensor of shape [2,3] that holds both values
\* in its other cells has been given the value it did not have
C25_Witness ==
    /\ op.name = "very_slow_set"
    /\ res = "ok"
    /\ prev.shape = <<2, 3>>
    /\ op.mapping = <<1, 1>>
    /\ very_slow_get(prev, op.mapping) # op.elem
    /\ very_slow_get(t, op.mapping) = op.elem
    /\ very_slow_get(t, <<0, 0>>) # very_slow_get(t, <<1, 2>>)
====
